---------------------------- MODULE Spec2Model ----------------------------
(***************************************************************************)
(* A model of the listings bot (src/app.py and its variant src/bot.py):    *)
(* the per-user session, the selection funnel, the filter, the pagination, *)
(* the favorites log (favorites.csv) and the per-user asyncio locks.       *)
(*                                                                         *)
(* Python strings that the code parses (callback data, locations, bedroom  *)
(* categories) are sequences of one-character strings, so that split("|"), *)
(* int(...) and str(...) are computed and not assumed.  Titles and URLs,    *)
(* which the code only copies and hashes, are atomic strings.              *)
(*                                                                         *)
(* A handler is a coroutine of a single-threaded asyncio loop: the code    *)
(* between two awaits runs atomically, and every await of a transport call *)
(* is a point where other handlers may run and where the call may raise.   *)
(***************************************************************************)
EXTENDS Integers, Sequences, FiniteSets, TLC

VARIABLES
    variant,      \* which program runs: "app" (src/app.py) or "bot" (src/bot.py)
    listings,     \* the module-level list `listings`, loaded once
    user_state,   \* the module-level dict user_state: uid -> session dict
    user_locks,   \* app.py: the module-level dict user_locks: uid -> Lock object
    locks,        \* the heap of asyncio.Lock objects: <<[locked, waiters, woken]>>
    fav_file,     \* the rows of favorites.csv (FAV_FILE), in file order
    tasks,        \* the handler coroutines: task id -> frame
    last_fav,     \* history: the last favorites operation, when it was a toggle
    probe         \* the argument and result of a helper function applied alone

vars == <<variant, listings, user_state, user_locks, locks, fav_file, tasks,
          last_fav, probe>>

-----------------------------------------------------------------------------
(* Python strings as sequences of characters *)

Digits == <<"0", "1", "2", "3", "4", "5", "6", "7", "8", "9">>

IsDigit(c) == \E i \in 1..10 : Digits[i] = c

DigitVal(c) == (CHOOSE i \in 1..10 : Digits[i] = c) - 1

\* str.strip(): leading and trailing whitespace removed
RECURSIVE LStrip(_)
LStrip(s) == IF s # <<>> /\ Head(s) = " " THEN LStrip(Tail(s)) ELSE s

RECURSIVE RStrip(_)
RStrip(s) ==
    IF s # <<>> /\ s[Len(s)] = " " THEN RStrip(SubSeq(s, 1, Len(s) - 1)) ELSE s

Strip(s) == RStrip(LStrip(s))

\* The value of int(...) that raises ValueError
ValueError == [ok |-> FALSE, val |-> 0]

\* The digits of an int literal, left to right; "_" may separate two digits
RECURSIVE DigitsValue(_, _, _)
DigitsValue(s, acc, prevDigit) ==
    IF s = <<>> THEN (IF prevDigit THEN [ok |-> TRUE, val |-> acc] ELSE ValueError)
    ELSE IF IsDigit(Head(s))
         THEN DigitsValue(Tail(s), 10 * acc + DigitVal(Head(s)), TRUE)
    ELSE IF Head(s) = "_" /\ prevDigit
         THEN DigitsValue(Tail(s), acc, FALSE)
    ELSE ValueError

\* Python's int(str): surrounding whitespace, an optional sign, decimal digits
PyInt(str) ==
    LET s    == Strip(str)
        neg  == s # <<>> /\ Head(s) = "-"
        body == IF s # <<>> /\ Head(s) \in {"+", "-"} THEN Tail(s) ELSE s
        r    == DigitsValue(body, 0, FALSE)
    IN  IF r.ok /\ neg THEN [ok |-> TRUE, val |-> 0 - r.val] ELSE r

\* Python's str(int)
RECURSIVE NatStr(_)
NatStr(n) ==
    IF n < 10 THEN <<Digits[n + 1]>> ELSE NatStr(n \div 10) \o <<Digits[(n % 10) + 1]>>

PyStr(n) == IF n < 0 THEN <<"-">> \o NatStr(0 - n) ELSE NatStr(n)

\* str.split(sep) for a one-character separator
RECURSIVE SplitAcc(_, _, _)
SplitAcc(s, sep, cur) ==
    IF s = <<>> THEN <<cur>>
    ELSE IF Head(s) = sep THEN <<cur>> \o SplitAcc(Tail(s), sep, <<>>)
    ELSE SplitAcc(Tail(s), sep, Append(cur, Head(s)))

Split(s, sep) == SplitAcc(s, sep, <<>>)

\* sep.join(parts), as the f-strings of the keyboards build callback data
RECURSIVE Join(_, _)
Join(parts, sep) ==
    IF Len(parts) = 0 THEN <<>>
    ELSE IF Len(parts) = 1 THEN parts[1]
    ELSE parts[1] \o <<sep>> \o Join(Tail(parts), sep)


-----------------------------------------------------------------------------
(* The string literals of the code *)

S_location == <<"l", "o", "c", "a", "t", "i", "o", "n">>
S_bedrooms == <<"b", "e", "d", "r", "o", "o", "m", "s">>
S_budget == <<"b", "u", "d", "g", "e", "t">>
S_page == <<"p", "a", "g", "e">>
S_prev == <<"p", "r", "e", "v">>
S_next == <<"n", "e", "x", "t">>
S_fav_toggle == <<"f", "a", "v", "_", "t", "o", "g", "g", "l", "e">>
S_fav_remove == <<"f", "a", "v", "_", "r", "e", "m", "o", "v", "e">>
S_restart == <<"r", "e", "s", "t", "a", "r", "t">>
S_back_to_bedrooms ==
    <<"b", "a", "c", "k", "_", "t", "o", "_", "b", "e", "d", "r", "o", "o", "m", "s">>
S_back_to_budget ==
    <<"b", "a", "c", "k", "_", "t", "o", "_", "b", "u", "d", "g", "e", "t">>
S_favorites == <<"f", "a", "v", "o", "r", "i", "t", "e", "s">>
S_help == <<"h", "e", "l", "p">>
S_inf == <<"i", "n", "f">>
S_Bedsitter == <<"B", "e", "d", "s", "i", "t", "t", "e", "r">>
S_Unknown == <<"U", "n", "k", "n", "o", "w", "n">>
S_4plus == <<"4", "+">>
S_Thika == <<"T", "h", "i", "k", "a">>
S_Ruiru == <<"R", "u", "i", "r", "u">>

\* Python's None, where a dict .get() without default finds no key
None == <<"<None>">>

\* float("inf"), and an int used as a price bound
PyInf == [inf |-> TRUE, n |-> 0]

Fin(n) == [inf |-> FALSE, n |-> n]

\* price <= max_price, where max_price is an int or float("inf")
LeqBound(price, mx) == mx.inf \/ price <= mx.n

-----------------------------------------------------------------------------
(* Python dicts: functions whose domain is the set of keys present *)

EmptyDict == [k \in {} |-> 0]

Has(d, k) == k \in DOMAIN d

Get(d, k, default) == IF k \in DOMAIN d THEN d[k] ELSE default

Put(d, k, v) == [x \in (DOMAIN d) \cup {k} |-> IF x = k THEN v ELSE d[x]]

Pop(d, k) == [x \in (DOMAIN d) \ {k} |-> d[x]]

-----------------------------------------------------------------------------
(* Favorites: favorites.csv *)

\* hashlib.md5(text).hexdigest(), cut to its leading hex digits, on the URLs used
_md5(text) ==
    CASE text = "u1" -> <<"e", "4", "7", "7">>
      [] text = "u2" -> <<"2", "7", "0", "c">>
      [] text = "u3" -> <<"5", "3", "2", "a">>
      [] text = ""   -> <<"d", "4", "1", "d">>

\* add_favorite: one row appended; csv writes every field with str().
\* io other than "ok": open(FAV_FILE, "a") raises, nothing is written, the
\* exception is logged and False returned.
add_favorite(file, user_id, listing, io) ==
    IF io = "ok"
    THEN [file |-> Append(file, [user_id   |-> PyStr(user_id),
                                 title     |-> listing.title,
                                 price     |-> PyStr(listing.price),
                                 bedrooms  |-> listing.bedrooms,
                                 location  |-> listing.location,
                                 url       |-> listing.url,
                                 image_url |-> listing.image_url]),
          ret |-> TRUE]
    ELSE [file |-> file, ret |-> FALSE]

\* The loop of a remove_favorite_by_hash that stops at the first row it drops
RECURSIVE KeptRowsFirstOnly(_, _, _)
KeptRowsFirstOnly(rows, user_id, url_hash) ==
    IF rows = <<>> THEN <<>>
    ELSE IF Head(rows).user_id = PyStr(user_id) /\ _md5(Head(rows).url) = url_hash
         THEN Tail(rows)
    ELSE <<Head(rows)>> \o KeptRowsFirstOnly(Tail(rows), user_id, url_hash)

\* The loop of remove_favorite_by_hash over the rows read
RECURSIVE KeptRows(_, _, _)
KeptRows(rows, user_id, url_hash) ==
    IF rows = <<>> THEN <<>>
    ELSE IF Head(rows).user_id = PyStr(user_id) /\ _md5(Head(rows).url) = url_hash
         THEN KeptRows(Tail(rows), user_id, url_hash)
    ELSE <<Head(rows)>> \o KeptRows(Tail(rows), user_id, url_hash)

\* A `removed` flag that looks at the first row only
AnyRemovedFirstRow(rows, user_id, url_hash) ==
    /\ rows # <<>>
    /\ Head(rows).user_id = PyStr(user_id)
    /\ _md5(Head(rows).url) = url_hash

RECURSIVE AnyRemoved(_, _, _)
AnyRemoved(rows, user_id, url_hash) ==
    IF rows = <<>> THEN FALSE
    ELSE (Head(rows).user_id = PyStr(user_id) /\ _md5(Head(rows).url) = url_hash)
         \/ AnyRemoved(Tail(rows), user_id, url_hash)

\* remove_favorite_by_hash: the file is read, then rewritten without the rows of
\* the user with that hash.  io = "read_fail": open for reading raises;
\* "open_fail": open(FAV_FILE, "w") raises, the file is as it was;
\* "write_fail": the file was truncated by open(..., "w") and the write raises.
\* In each case the except clause logs, and `removed` is returned as computed.
remove_favorite_by_hash(file, user_id, url_hash, io) ==
    CASE io = "ok" ->
            [file |-> KeptRows(file, user_id, url_hash),
             ret  |-> AnyRemoved(file, user_id, url_hash)]
      [] io = "read_fail" -> [file |-> file, ret |-> FALSE]
      [] io = "open_fail" ->
            [file |-> file, ret |-> AnyRemoved(file, user_id, url_hash)]
      [] io = "write_fail" ->
            [file |-> <<>>, ret |-> AnyRemoved(file, user_id, url_hash)]

\* load_user_favorites: the rows of the user, in file order (the read of the
\* file is taken to succeed)
RECURSIVE load_user_favorites(_, _)
load_user_favorites(file, user_id) ==
    IF file = <<>> THEN <<>>
    ELSE IF Head(file).user_id = PyStr(user_id)
         THEN <<Head(file)>> \o load_user_favorites(Tail(file), user_id)
    ELSE load_user_favorites(Tail(file), user_id)

\* A saved test that looks at the first record of the user only
IsSavedFirstOnly(file, user_id, url_hash) ==
    LET favs == load_user_favorites(file, user_id)
    IN  favs # <<>> /\ _md5(favs[1].url) = url_hash

\* saved = any(_md5(f.get("url", "")) == url_hash for f in favs)
IsSaved(file, user_id, url_hash) ==
    LET favs == load_user_favorites(file, user_id)
    IN  \E i \in 1..Len(favs) : _md5(favs[i].url) = url_hash

-----------------------------------------------------------------------------
(* Filtering *)

\* A match_bedrooms whose "4+" starts above 4
match_bedrooms_gt(listing_bedrooms, selected_bedrooms) ==
    IF selected_bedrooms = S_4plus
    THEN LET v == PyInt(listing_bedrooms) IN v.ok /\ v.val > 4
    ELSE listing_bedrooms = selected_bedrooms

\* app.py match_bedrooms
match_bedrooms(listing_bedrooms, selected_bedrooms) ==
    IF selected_bedrooms = S_4plus
    THEN LET v == PyInt(listing_bedrooms) IN v.ok /\ v.val >= 4
    ELSE listing_bedrooms = selected_bedrooms

\* The test of the budget branch with the upper end of the range left out
AppMatchesExclusive(l, location, bedrooms, min_price, max_price) ==
    /\ l.location = location
    /\ match_bedrooms(l.bedrooms, bedrooms)
    /\ min_price <= l.price
    /\ LeqBound(l.price + 1, max_price)

\* app.py: the test in the comprehension of the budget branch
AppMatches(l, location, bedrooms, min_price, max_price) ==
    /\ l.location = location
    /\ match_bedrooms(l.bedrooms, bedrooms)
    /\ min_price <= l.price
    /\ LeqBound(l.price, max_price)

\* A filter that collects the matches last to first
RECURSIVE AppFilterReversed(_, _, _, _, _)
AppFilterReversed(ls, location, bedrooms, min_price, max_price) ==
    IF ls = <<>> THEN <<>>
    ELSE AppFilterReversed(Tail(ls), location, bedrooms, min_price, max_price)
         \o (IF AppMatches(Head(ls), location, bedrooms, min_price, max_price)
             THEN <<Head(ls)>> ELSE <<>>)

\* app.py: filtered = [l for l in listings if ...]
RECURSIVE AppFilter(_, _, _, _, _)
AppFilter(ls, location, bedrooms, min_price, max_price) ==
    IF ls = <<>> THEN <<>>
    ELSE (IF AppMatches(Head(ls), location, bedrooms, min_price, max_price)
          THEN <<Head(ls)>> ELSE <<>>)
         \o AppFilter(Tail(ls), location, bedrooms, min_price, max_price)

\* bot.py: the bedrooms test inside the filter loop of the budget branch
BotBedroomsMatch(lb, br) ==
    IF br = S_Bedsitter THEN lb \in {S_Bedsitter, <<"0">>}
    ELSE IF br = S_4plus THEN LET v == PyInt(lb) IN v.ok /\ v.val >= 4
    ELSE \/ lb = br
         \/ /\ br # None
            /\ LET a == PyInt(lb)
                   b == PyInt(br)
               IN  a.ok /\ b.ok /\ a.val = b.val

BotMatches(L, loc, br, mn, mx) ==
    /\ L.location = (IF loc = None THEN <<>> ELSE loc)
    /\ BotBedroomsMatch(L.bedrooms, br)
    /\ mn <= L.price
    /\ LeqBound(L.price, mx)

\* bot.py: the loop `for L in listings: ... results.append(L)`
RECURSIVE BotFilter(_, _, _, _, _)
BotFilter(ls, loc, br, mn, mx) ==
    IF ls = <<>> THEN <<>>
    ELSE (IF BotMatches(Head(ls), loc, br, mn, mx) THEN <<Head(ls)>> ELSE <<>>)
         \o BotFilter(Tail(ls), loc, br, mn, mx)


-----------------------------------------------------------------------------
(* Keyboards: the callback data each button carries *)

BEDROOM_OPTIONS == <<S_Bedsitter, <<"1">>, <<"2">>, <<"3">>, S_4plus>>

BUDGET_OPTIONS ==
    << [mn |-> 0,     mx |-> Fin(10000)],
       [mn |-> 10001, mx |-> Fin(20000)],
       [mn |-> 20001, mx |-> Fin(30000)],
       [mn |-> 30001, mx |-> Fin(50000)],
       [mn |-> 0,     mx |-> PyInf] >>

\* build_budget_keyboard: f"budget|{mn}|{mx_serial}"
BudgetData(mn, mx) ==
    Join(<<S_budget, PyStr(mn), IF mx.inf THEN S_inf ELSE PyStr(mx.n)>>, "|")

\* A label that offers to remove what is not saved
FavButtonLabelInverted(saved) == IF saved THEN "save" ELSE "remove"

\* build_pagination_keyboard: the label of fav_button
FavButtonLabel(saved) == IF ~saved THEN "save" ELSE "remove"

\* A keyboard that still offers Next on the last page
build_pagination_keyboard_next_on_last(page, total, saved) ==
    (IF page > 0 THEN <<Join(<<S_page, S_prev>>, "|")>> ELSE <<>>)
    \o (IF page < total THEN <<Join(<<S_page, S_next>>, "|")>> ELSE <<>>)
    \o <<S_fav_toggle, S_back_to_budget, S_restart>>

\* build_pagination_keyboard: the callback data of the buttons, row by row
build_pagination_keyboard(page, total, saved) ==
    (IF page > 0 THEN <<Join(<<S_page, S_prev>>, "|")>> ELSE <<>>)
    \o (IF page < total - 1 THEN <<Join(<<S_page, S_next>>, "|")>> ELSE <<>>)
    \o <<S_fav_toggle, S_back_to_budget, S_restart>>

-----------------------------------------------------------------------------
(* Handler frames, transport calls and locks *)

NoCall == [op |-> "none", msg |-> "none", arg |-> <<>>]

Call(op, msg, arg) == [op |-> op, msg |-> msg, arg |-> arg]

NoLocals == [render |-> <<>>, display |-> <<>>, favs |-> <<>>]

IdleFrame ==
    [pc |-> "idle", kind |-> "idle", uid |-> 0, data |-> <<>>, lock |-> 0,
     call |-> NoCall, lv |-> NoLocals, calls |-> <<>>]

\* The history of the favorites operations: the last one when it was a toggle
\* (who, which hash, the status it found, whether its file operation went
\* through) and, in `pair`, the same of the toggle right before it when that
\* was of the same user on the same hash.  NoFav: no toggle was the last.
NoFav == [uid |-> 0, hash |-> <<>>, before |-> FALSE, ok |-> TRUE, pair |-> <<>>]

\* The history is not kept (in the specifications that do not read it)
HistOff == [uid |-> -1, hash |-> <<>>, before |-> FALSE, ok |-> TRUE, pair |-> <<>>]

\* The history after a toggle
ToggleHist(lf, uid, url_hash, saved, io) ==
    IF lf = HistOff THEN lf
    ELSE [uid |-> uid, hash |-> url_hash, before |-> saved, ok |-> (io = "ok"),
          pair |-> IF lf.uid = uid /\ lf.hash = url_hash
                   THEN <<[before |-> lf.before, ok |-> lf.ok]>> ELSE <<>>]

\* The history after a favorites operation that is not a toggle
OtherHist(lf) == IF lf = HistOff THEN lf ELSE NoFav

\* What the code between two awaits leaves behind: the session dicts, the
\* favorites file, where the coroutine suspends next and on which call
Eff(us, file, pc, call, lv, lf) ==
    [us |-> us, file |-> file, pc |-> pc, call |-> call, lv |-> lv, lf |-> lf]

\* The message ids a chat still refers to: the sessions' display references
\* and those a suspended send_or_edit_listing has read
LiveIds(uid) ==
    (IF uid \in DOMAIN user_state /\ Has(user_state[uid], "display")
     THEN {user_state[uid]["display"].message_id} ELSE {})
    \cup {tasks[t].lv.display[1].message_id :
            t \in {x \in DOMAIN tasks : tasks[x].uid = uid /\ tasks[x].lv.display # <<>>}}

\* The message_id of a message the transport has just sent: one no other
\* message of the chat has
FreshId(uid) ==
    CHOOSE m \in 1..(Cardinality(LiveIds(uid)) + 1) :
        /\ m \notin LiveIds(uid)
        /\ \A k \in 1..(m - 1) : k \in LiveIds(uid)

\* A reference that stays the one the session holds already
SentRefKeepsOld(uid) ==
    IF uid \in DOMAIN user_state /\ Has(user_state[uid], "display")
    THEN user_state[uid]["display"]
    ELSE [chat_id |-> uid, message_id |-> FreshId(uid)]

\* sent.chat_id, sent.message_id of a reply in the private chat of the user
SentRef(uid) == [chat_id |-> uid, message_id |-> FreshId(uid)]

-----------------------------------------------------------------------------
(* app.py: send_or_edit_listing, up to its first await *)

\* The caption and the keyboard of a result page
Render(uid, st, file) ==
    LET results == st["results"]
        page    == Get(st, "page", 0)
        res     == results[page + 1]
        saved   == IsSaved(file, uid, _md5(res.url))
    IN  [page |-> page, total |-> Len(results), res |-> res, saved |-> saved,
         label |-> FavButtonLabel(saved),
         markup |-> build_pagination_keyboard(page, Len(results), saved)]

ExceptCall == Call("reply_text", "something_went_wrong", <<>>)

app_send_or_edit_listing(us, file, uid, refresh_only, lf) ==
    LET st == Get(us, uid, EmptyDict)
    IN  IF Get(st, "results", <<>>) = <<>>
        THEN Eff(us, file, "call_final",
                 Call("reply_text", "expired_or_no_results", <<>>), NoLocals, lf)
        ELSE IF Get(st, "page", 0) + 1 > Len(st["results"])
        THEN \* results[page] raises IndexError
             Eff(us, file, "call_last", ExceptCall, NoLocals, lf)
        ELSE LET r  == Render(uid, st, file)
                 lv == [NoLocals EXCEPT !.render = <<r>>]
             IN  IF Has(st, "display") /\ ~refresh_only
                 THEN Eff(us, file,
                          IF r.res.image_url # "" THEN "edit_media" ELSE "edit_text",
                          Call(IF r.res.image_url # "" THEN "edit_message_media"
                                                      ELSE "edit_message_text",
                               "result_page", r),
                          [lv EXCEPT !.display = <<st["display"]>>], lf)
                 ELSE Eff(us, file, "send_new",
                          Call(IF r.res.image_url # "" THEN "reply_photo" ELSE "reply_text",
                               "result_page", r),
                          lv, lf)


-----------------------------------------------------------------------------
(* app.py: callback_handler, the code that runs once query.answer() returned *)

\* Raising inside the try block: control goes to the except clause, which
\* replies "Something went wrong. Try /start again."
Raise(us, file, lf) == Eff(us, file, "call_last", ExceptCall, NoLocals, lf)

\* A first-contact test that rebuilds user_state around the session of this user
EnsureSessionAlone(us, uid) ==
    [u \in DOMAIN us \cup {uid} |-> IF u = uid THEN Get(us, uid, EmptyDict) ELSE EmptyDict]

\* if uid not in user_state: user_state[uid] = {}
EnsureSession(us, uid) == IF uid \in DOMAIN us THEN us ELSE Put(us, uid, EmptyDict)

AppLocation(us, file, uid, parts, lf) ==
    IF Len(parts) < 2 THEN Raise(us, file, lf)
    ELSE Eff([us EXCEPT ![uid] = Put(us[uid], "location", parts[2])], file,
             "call_final", Call("edit_text", "choose_bedrooms", parts[2]), NoLocals, lf)

AppBedrooms(us, file, uid, parts, lf) ==
    IF Len(parts) < 2 THEN Raise(us, file, lf)
    ELSE Eff([us EXCEPT ![uid] = Put(us[uid], "bedrooms", parts[2])], file,
             "call_final", Call("edit_text", "choose_budget", parts[2]), NoLocals, lf)

AppBudget(us, file, uid, parts, ls, lf) ==
    IF Len(parts) # 3
    THEN Eff(us, file, "call_final", Call("reply_text", "budget_error", <<>>), NoLocals, lf)
    ELSE IF ~PyInt(parts[2]).ok \/ (parts[3] # S_inf /\ ~PyInt(parts[3]).ok)
    THEN Eff(us, file, "call_final", Call("reply_text", "budget_error", <<>>), NoLocals, lf)
    ELSE IF ~Has(us[uid], "location") \/ ~Has(us[uid], "bedrooms")
    THEN Eff(us, file, "call_then_reset",
             Call("reply_text", "session_expired", <<>>), NoLocals, lf)
    ELSE LET min_price == PyInt(parts[2]).val
             max_price == IF parts[3] = S_inf THEN PyInf ELSE Fin(PyInt(parts[3]).val)
             filtered  == AppFilter(ls, us[uid]["location"], us[uid]["bedrooms"],
                                    min_price, max_price)
             st        == Put(Put(Put(Put(us[uid], "min_price", min_price),
                                      "max_price", max_price),
                                  "results", filtered),
                              "page", 0)
             us2       == [us EXCEPT ![uid] = st]
         IN  IF filtered = <<>>
             THEN Eff(us2, file, "call_then_reset",
                      Call("edit_text", "no_listings_found", <<>>), NoLocals, lf)
             ELSE app_send_or_edit_listing(us2, file, uid, FALSE, lf)

\* A page branch that moves without looking at the ends
AppPageUnclamped(us, file, uid, parts, lf) ==
    IF Len(parts) < 2 THEN Raise(us, file, lf)
    ELSE LET page == Get(us[uid], "page", 0)
             us2  == IF parts[2] = S_prev
                     THEN [us EXCEPT ![uid] = Put(us[uid], "page", page - 1)]
                     ELSE IF parts[2] = S_next
                     THEN [us EXCEPT ![uid] = Put(us[uid], "page", page + 1)]
                     ELSE us
         IN  IF Get(us2[uid], "page", 0) < 0 THEN Raise(us2, file, lf)
             ELSE app_send_or_edit_listing(us2, file, uid, TRUE, lf)

AppPage(us, file, uid, parts, lf) ==
    IF Len(parts) < 2 THEN Raise(us, file, lf)
    ELSE LET direction == parts[2]
             page      == Get(us[uid], "page", 0)
         IN  IF direction = S_prev /\ page > 0
             THEN app_send_or_edit_listing(
                      [us EXCEPT ![uid] = Put(us[uid], "page", page - 1)],
                      file, uid, TRUE, lf)
             ELSE IF direction = S_next /\ ~Has(us[uid], "results")
             THEN \* user_state[uid]["results"] raises KeyError
                  Raise(us, file, lf)
             ELSE IF direction = S_next /\ page < Len(us[uid]["results"]) - 1
             THEN app_send_or_edit_listing(
                      [us EXCEPT ![uid] = Put(us[uid], "page", page + 1)],
                      file, uid, TRUE, lf)
             ELSE app_send_or_edit_listing(us, file, uid, TRUE, lf)

\* A fav_toggle branch that, like the budget branch, resets the session once
\* it has told the user that the session expired
AppFavToggleResets(us, file, uid, io, lf) ==
    Eff(us, file, "call_then_reset", Call("reply_text", "session_expired", <<>>),
        NoLocals, lf)

AppFavToggle(us, file, uid, io, lf) ==
    LET results == Get(us[uid], "results", <<>>)
        page    == Get(us[uid], "page", 0)
    IN  IF results = <<>>
        THEN Eff(us, file, "call_final",
                 Call("reply_text", "session_expired", <<>>), NoLocals, lf)
        ELSE IF page + 1 > Len(results) THEN Raise(us, file, lf)
        ELSE LET listing  == results[page + 1]
                 url_hash == _md5(listing.url)
                 saved    == IsSaved(file, uid, url_hash)
                 hist     == ToggleHist(lf, uid, url_hash, saved, io)
             IN  IF saved
                 THEN Eff(us, remove_favorite_by_hash(file, uid, url_hash, io).file,
                          "toggled_reply",
                          Call("reply_text", "removed_from_favorites", <<>>),
                          NoLocals, hist)
                 ELSE Eff(us, add_favorite(file, uid, listing, io).file,
                          "toggled_reply",
                          Call("reply_text", "added_to_favorites", <<>>),
                          NoLocals, hist)

AppFavRemove(us, file, uid, parts, io, lf) ==
    IF Len(parts) < 2 THEN Raise(us, file, lf)
    ELSE LET r == remove_favorite_by_hash(file, uid, parts[2], io)
         IN  Eff(us, r.file, "removed_reply",
                 Call("reply_text",
                      IF r.ret THEN "favorite_removed" ELSE "failed_to_remove", <<>>),
                 NoLocals, OtherHist(lf))

\* A restart branch that keeps the location
AppRestartKeepsLocation(us, file, uid, lf) ==
    Eff([us EXCEPT ![uid] = IF Has(us[uid], "location")
                            THEN Put(EmptyDict, "location", us[uid]["location"])
                            ELSE EmptyDict],
        file, "call_final", Call("edit_text", "welcome", <<>>), NoLocals, lf)

AppRestart(us, file, uid, lf) ==
    Eff([us EXCEPT ![uid] = EmptyDict], file, "call_final",
        Call("edit_text", "welcome", <<>>), NoLocals, lf)

AppBackToBedrooms(us, file, uid, lf) ==
    LET st == Pop(Pop(Pop(Pop(Pop(us[uid], "min_price"), "max_price"),
                          "results"), "page"), "display")
    IN  Eff([us EXCEPT ![uid] = st], file, "call_final",
            Call("edit_text", "choose_bedrooms", Get(st, "location", <<"N", "/", "A">>)),
            NoLocals, lf)

AppBackToBudget(us, file, uid, lf) ==
    LET st == Pop(Pop(Pop(us[uid], "results"), "page"), "display")
    IN  Eff([us EXCEPT ![uid] = st], file, "call_final",
            Call("edit_text", "choose_budget", Get(st, "bedrooms", <<"N", "/", "A">>)),
            NoLocals, lf)

\* One card of the favorites view: the row shown and its remove button
CardCall(f) ==
    Call(IF f.image_url # "" THEN "reply_photo" ELSE "reply_text", "favorite_card",
         [row |-> f, remove |-> Join(<<S_fav_remove, _md5(f.url)>>, "|")])

\* A favorites branch that shows the rows of every user
AppFavoritesAllRows(us, file, uid, lf) ==
    IF file = <<>>
    THEN Eff(us, file, "call_final", Call("reply_text", "no_favorites", <<>>),
             NoLocals, lf)
    ELSE Eff(us, file, "fav_card", CardCall(file[1]),
             [NoLocals EXCEPT !.favs = Tail(file)], lf)

AppFavorites(us, file, uid, lf) ==
    LET favs == load_user_favorites(file, uid)
    IN  IF favs = <<>>
        THEN Eff(us, file, "call_final", Call("reply_text", "no_favorites", <<>>),
                 NoLocals, lf)
        ELSE Eff(us, file, "fav_card", CardCall(favs[1]),
                 [NoLocals EXCEPT !.favs = Tail(favs)], lf)

AppHelp(us, file, lf) ==
    Eff(us, file, "call_final", Call("reply_text", "help", <<>>), NoLocals, lf)

\* The if/elif chain on parts[0]; no branch taken: the handler returns
AppDispatch(us0, file, uid, data, ls, io, lf) ==
    LET us     == EnsureSession(us0, uid)
        parts  == Split(data, "|")
        action == parts[1]
    IN  CASE action = S_location         -> AppLocation(us, file, uid, parts, lf)
          [] action = S_bedrooms         -> AppBedrooms(us, file, uid, parts, lf)
          [] action = S_budget           -> AppBudget(us, file, uid, parts, ls, lf)
          [] action = S_page             -> AppPage(us, file, uid, parts, lf)
          [] action = S_fav_toggle       -> AppFavToggle(us, file, uid, io, lf)
          [] action = S_fav_remove       -> AppFavRemove(us, file, uid, parts, io, lf)
          [] action = S_restart          -> AppRestart(us, file, uid, lf)
          [] action = S_back_to_bedrooms -> AppBackToBedrooms(us, file, uid, lf)
          [] action = S_back_to_budget   -> AppBackToBudget(us, file, uid, lf)
          [] action = S_favorites        -> AppFavorites(us, file, uid, lf)
          [] action = S_help             -> AppHelp(us, file, lf)
          [] OTHER                       -> Eff(us, file, "return", NoCall, NoLocals, lf)

\* app.py callback_handler resuming from the await it was suspended on.
\* f: the frame; ok: whether the awaited transport call returned (or raised)
AppCallbackResume(f, ok, us, file, ls, io, lf) ==
    LET uid == f.uid
        ret == Eff(us, file, "return", NoCall, NoLocals, lf)
    IN  CASE f.pc = "answer" ->
                IF ok THEN AppDispatch(us, file, uid, f.data, ls, io, lf)
                ELSE Raise(us, file, lf)
          [] f.pc = "call_final" -> IF ok THEN ret ELSE Raise(us, file, lf)
          [] f.pc = "call_then_reset" ->
                IF ok THEN Eff([us EXCEPT ![uid] = EmptyDict], file, "return",
                               NoCall, NoLocals, lf)
                ELSE Raise(us, file, lf)
          [] f.pc = "toggled_reply" ->
                IF ok THEN app_send_or_edit_listing(us, file, uid, TRUE, lf)
                ELSE Raise(us, file, lf)
          [] f.pc = "removed_reply" ->
                IF ok THEN Eff(us, file, "delete_msg", Call("delete", "none", <<>>),
                               NoLocals, lf)
                ELSE Raise(us, file, lf)
          [] f.pc = "delete_msg" -> IF ok THEN ret ELSE Raise(us, file, lf)
          [] f.pc = "edit_media" ->
                IF ok THEN ret
                ELSE Eff(us, file, "edit_text",
                         Call("edit_message_text", "result_page", f.lv.render[1]),
                         f.lv, lf)
          [] f.pc = "edit_text" ->
                IF ok THEN ret
                ELSE Eff(us, file, "send_new",
                         Call(IF f.lv.render[1].res.image_url # ""
                              THEN "reply_photo" ELSE "reply_text",
                              "result_page", f.lv.render[1]),
                         [f.lv EXCEPT !.display = <<>>], lf)
          [] f.pc = "send_new" ->
                IF ok THEN Eff([us EXCEPT ![uid] = Put(us[uid], "display", SentRef(uid))],
                               file, "return", NoCall, NoLocals, lf)
                ELSE Raise(us, file, lf)
          [] f.pc = "fav_card" ->
                IF ~ok THEN Raise(us, file, lf)
                ELSE IF f.lv.favs = <<>> THEN ret
                ELSE Eff(us, file, "fav_card", CardCall(f.lv.favs[1]),
                         [f.lv EXCEPT !.favs = Tail(f.lv.favs)], lf)
          [] f.pc = "call_last" -> ret


-----------------------------------------------------------------------------
(* bot.py: callback_handler and send_or_edit_listing *)

\* data.startswith(prefix + "|")
StartsWith(data, prefix) ==
    Len(data) >= Len(prefix) + 1 /\ SubSeq(data, 1, Len(prefix) + 1) = prefix \o <<"|">>

\* data.split("|", 1)[1]: everything after the first separator
AfterFirst(data, prefix) == SubSeq(data, Len(prefix) + 2, Len(data))

\* The reply of the except clause of bot.py send_or_edit_listing
ListingErrorCall == Call("reply_text", "listing_error", <<>>)

bot_send_or_edit_listing(us, file, uid, refresh_only, lf) ==
    LET st == Get(us, uid, EmptyDict)
    IN  IF Get(st, "results", <<>>) = <<>>
        THEN Eff(us, file, "bot_call",
                 Call("reply_text", "expired_or_no_results", <<>>), NoLocals, lf)
        ELSE IF Get(st, "page", 0) + 1 > Len(st["results"])
        THEN Eff(us, file, "call_last", ListingErrorCall, NoLocals, lf)
        ELSE LET r  == Render(uid, st, file)
                 lv == [NoLocals EXCEPT !.render = <<r>>]
             IN  IF Has(st, "display") /\ ~refresh_only
                 THEN Eff(us, file,
                          IF r.res.image_url # "" THEN "edit_media" ELSE "edit_text",
                          Call(IF r.res.image_url # "" THEN "edit_message_media"
                                                      ELSE "edit_message_text",
                               "result_page", r),
                          [lv EXCEPT !.display = <<st["display"]>>], lf)
                 ELSE IF r.res.image_url # ""
                 THEN Eff(us, file, "send_photo", Call("reply_photo", "result_page", r),
                          lv, lf)
                 ELSE Eff(us, file, "send_text", Call("reply_text", "result_page", r),
                          lv, lf)

\* bot.py cmd_start called from the restart branch (update.message is None)
BotRestart(us, file, uid, lf) ==
    Eff([us EXCEPT ![uid] = EmptyDict], file, "edit_or_reply",
        Call("edit_text", "welcome", <<>>), NoLocals, lf)

BotBack(us, file, msg, lf) ==
    Eff(us, file, "edit_or_reply", Call("edit_text", msg, <<>>), NoLocals, lf)

BotLocation(us, file, uid, data, lf) ==
    LET loc == AfterFirst(data, S_location)
    IN  Eff([us EXCEPT ![uid] = Put(us[uid], "location", Strip(loc))], file,
            "edit_or_reply", Call("edit_text", "choose_bedrooms", loc), NoLocals, lf)

BotBedrooms(us, file, uid, data, lf) ==
    LET br == AfterFirst(data, S_bedrooms)
    IN  Eff([us EXCEPT ![uid] = Put(us[uid], "bedrooms", br)], file,
            "edit_or_reply", Call("edit_text", "choose_budget", br), NoLocals, lf)

\* The try block that decodes budget|mn|mx; any exception gives (0, inf)
BotBudgetBounds(data) ==
    LET parts == Split(data, "|")
    IN  IF /\ Len(parts) = 3
           /\ PyInt(parts[2]).ok
           /\ (parts[3] = S_inf \/ PyInt(parts[3]).ok)
        THEN [mn |-> PyInt(parts[2]).val,
              mx |-> IF parts[3] = S_inf THEN PyInf ELSE Fin(PyInt(parts[3]).val)]
        ELSE [mn |-> 0, mx |-> PyInf]

BotBudget(us, file, uid, data, ls, lf) ==
    LET b       == BotBudgetBounds(data)
        st1     == Put(Put(us[uid], "budget_min", b.mn), "budget_max", b.mx)
        results == BotFilter(ls, Get(st1, "location", None), Get(st1, "bedrooms", None),
                             b.mn, b.mx)
    IN  IF results = <<>>
        THEN Eff([us EXCEPT ![uid] = st1], file, "edit_or_reply",
                 Call("edit_text", "no_listings_found", <<>>), NoLocals, lf)
        ELSE bot_send_or_edit_listing(
                 [us EXCEPT ![uid] = Pop(Put(Put(st1, "results", results), "page", 0),
                                         "display")],
                 file, uid, FALSE, lf)

\* A page branch that moves without looking at the ends
BotPageUnclamped(us, file, uid, data, lf) ==
    IF ~Has(us[uid], "results")
    THEN Eff(us, file, "call_last", Call("reply_text", "session_expired", <<>>),
             NoLocals, lf)
    ELSE LET page == us[uid]["page"]
             us2  == IF data = Join(<<S_page, S_next>>, "|")
                     THEN [us EXCEPT ![uid] = Put(us[uid], "page", page + 1)]
                     ELSE IF data = Join(<<S_page, S_prev>>, "|")
                     THEN [us EXCEPT ![uid] = Put(us[uid], "page", page - 1)]
                     ELSE us
         IN  IF us2[uid]["page"] < 0
             THEN Eff(us2, file, "call_last", ListingErrorCall, NoLocals, lf)
             ELSE bot_send_or_edit_listing(us2, file, uid, FALSE, lf)

\* Integer min and max, as Python's builtins on two ints
Min(a, b) == IF a <= b THEN a ELSE b

Max(a, b) == IF a >= b THEN a ELSE b

BotPage(us, file, uid, data, lf) ==
    IF ~Has(us[uid], "results")
    THEN Eff(us, file, "call_last", Call("reply_text", "session_expired", <<>>),
             NoLocals, lf)
    ELSE IF data \in {Join(<<S_page, S_next>>, "|"), Join(<<S_page, S_prev>>, "|")}
            /\ ~Has(us[uid], "page")
    THEN \* user_state[uid]["page"] raises KeyError: logged by the except clause
         Eff(us, file, "return", NoCall, NoLocals, lf)
    ELSE LET us2 == IF data = Join(<<S_page, S_next>>, "|")
                    THEN [us EXCEPT ![uid] =
                            Put(us[uid], "page",
                                Min(us[uid]["page"] + 1, Len(us[uid]["results"]) - 1))]
                    ELSE IF data = Join(<<S_page, S_prev>>, "|")
                    THEN [us EXCEPT ![uid] =
                            Put(us[uid], "page", Max(us[uid]["page"] - 1, 0))]
                    ELSE us
         IN  bot_send_or_edit_listing(us2, file, uid, FALSE, lf)

BotFavToggle(us, file, uid, io, lf) ==
    IF ~(Has(us[uid], "results") /\ Has(us[uid], "page"))
    THEN Eff(us, file, "call_last", Call("answer", "no_listing_selected", <<>>),
             NoLocals, lf)
    ELSE IF us[uid]["page"] + 1 > Len(us[uid]["results"])
    THEN Eff(us, file, "return", NoCall, NoLocals, lf)
    ELSE LET res      == us[uid]["results"][us[uid]["page"] + 1]
             url_hash == _md5(res.url)
             already  == IsSaved(file, uid, url_hash)
             hist     == ToggleHist(lf, uid, url_hash, already, io)
         IN  IF already
             THEN LET r == remove_favorite_by_hash(file, uid, url_hash, io)
                  IN  Eff(us, r.file, "toggled_reply",
                          Call("answer", IF r.ret THEN "removed_from_favorites"
                                                  ELSE "not_removed", <<>>),
                          NoLocals, hist)
             ELSE LET r == add_favorite(file, uid, res, io)
                  IN  Eff(us, r.file, "toggled_reply",
                          Call("answer", IF r.ret THEN "saved_to_favorites"
                                                  ELSE "could_not_save", <<>>),
                          NoLocals, hist)

\* After the answer, cmd_favorites(update, context) reads update.message, which
\* is None for a callback query: AttributeError, logged by the except clause
BotFavRemove(us, file, uid, data, io, lf) ==
    LET r == remove_favorite_by_hash(file, uid, AfterFirst(data, S_fav_remove), io)
    IN  Eff(us, r.file, "call_last",
            Call("answer", IF r.ret THEN "removed" ELSE "not_found", <<>>),
            NoLocals, OtherHist(lf))

\* The chain of `if` tests on data; nothing matched: "Unhandled callback"
BotDispatch(us0, file, uid, data, ls, io, lf) ==
    LET us == EnsureSession(us0, uid)
    IN  CASE data = S_restart          -> BotRestart(us, file, uid, lf)
          [] data = S_help             ->
                Eff(us, file, "call_last", Call("reply_text", "help", <<>>), NoLocals, lf)
          [] data = S_favorites        ->
                \* cmd_favorites: update.message is None, AttributeError
                Eff(us, file, "return", NoCall, NoLocals, lf)
          [] data = S_back_to_bedrooms -> BotBack(us, file, "choose_bedrooms", lf)
          [] data = S_back_to_budget   -> BotBack(us, file, "choose_budget", lf)
          [] StartsWith(data, S_location)   -> BotLocation(us, file, uid, data, lf)
          [] StartsWith(data, S_bedrooms)   -> BotBedrooms(us, file, uid, data, lf)
          [] StartsWith(data, S_budget)     -> BotBudget(us, file, uid, data, ls, lf)
          [] StartsWith(data, S_page)       -> BotPage(us, file, uid, data, lf)
          [] data = S_fav_toggle            -> BotFavToggle(us, file, uid, io, lf)
          [] StartsWith(data, S_fav_remove) -> BotFavRemove(us, file, uid, data, io, lf)
          [] OTHER -> Eff(us, file, "return", NoCall, NoLocals, lf)

\* bot.py callback_handler resuming from the await it was suspended on
BotCallbackResume(f, ok, us, file, ls, io, lf) ==
    LET uid   == f.uid
        ret   == Eff(us, file, "return", NoCall, NoLocals, lf)
        store == Eff([us EXCEPT ![uid] = Put(us[uid], "display", SentRef(uid))],
                     file, "return", NoCall, NoLocals, lf)
        error == Eff(us, file, "call_last", ListingErrorCall, NoLocals, lf)
    IN  CASE f.pc = "answer" ->
                IF ok THEN BotDispatch(us, file, uid, f.data, ls, io, lf) ELSE ret
          [] f.pc = "edit_or_reply" ->
                IF ok THEN ret
                ELSE Eff(us, file, "call_last", Call("reply_text", f.call.msg, f.call.arg),
                         NoLocals, lf)
          [] f.pc = "bot_call" -> IF ok THEN ret ELSE error
          [] f.pc = "toggled_reply" ->
                IF ok THEN bot_send_or_edit_listing(us, file, uid, TRUE, lf) ELSE ret
          [] f.pc = "edit_media" ->
                IF ok THEN ret
                ELSE Eff(us, file, "edit_text",
                         Call("edit_message_text", "result_page", f.lv.render[1]),
                         f.lv, lf)
          [] f.pc = "edit_text" ->
                IF ok THEN ret
                ELSE Eff(us, file,
                         IF f.lv.render[1].res.image_url # "" THEN "send_photo"
                                                               ELSE "send_text",
                         Call(IF f.lv.render[1].res.image_url # ""
                              THEN "reply_photo" ELSE "reply_text",
                              "result_page", f.lv.render[1]),
                         [f.lv EXCEPT !.display = <<>>], lf)
          [] f.pc = "send_photo" ->
                IF ok THEN store
                ELSE Eff(us, file, "send_text",
                         Call("reply_text", "result_page", f.lv.render[1]), f.lv, lf)
          [] f.pc = "send_text" -> IF ok THEN store ELSE error
          [] f.pc = "call_last" -> ret


-----------------------------------------------------------------------------
(* The command handlers: cmd_start, cmd_favorites, cmd_help *)

\* A command handler from its start to its first await
CommandBegin(v, kind, us, file, uid, ls, lf) ==
    CASE kind = "start" ->
            IF v = "app" /\ ls = <<>>
            THEN Eff(us, file, "call_last",
                     Call("reply_text", "no_listings_available", <<>>), NoLocals, lf)
            ELSE Eff(Put(us, uid, EmptyDict), file,
                     IF v = "app" THEN "reply_twice" ELSE "call_last",
                     Call("reply_text", "welcome", <<>>), NoLocals, lf)
      [] kind = "favorites" ->
            LET favs == load_user_favorites(file, uid)
            IN  IF favs = <<>>
                THEN Eff(us, file, "call_last", Call("reply_text", "no_favorites", <<>>),
                         NoLocals, lf)
                ELSE Eff(us, file, "cmd_fav_card", CardCall(favs[1]),
                         [NoLocals EXCEPT !.favs = Tail(favs)], lf)
      [] kind = "help" ->
            Eff(us, file, IF v = "app" THEN "call_last" ELSE "reply_twice",
                Call("reply_text", "help", <<>>), NoLocals, lf)

\* A command handler resuming from the await it was suspended on
CommandResume(v, f, ok, us, file, lf) ==
    LET ret  == Eff(us, file, "return", NoCall, NoLocals, lf)
        next == IF f.lv.favs = <<>> THEN ret
                ELSE Eff(us, file, "cmd_fav_card", CardCall(f.lv.favs[1]),
                         [f.lv EXCEPT !.favs = Tail(f.lv.favs)], lf)
    IN  CASE f.pc = "reply_twice" ->
                \* except: the same text is replied once more
                IF ok THEN ret
                ELSE Eff(us, file, "call_last", Call("reply_text", f.call.msg, <<>>),
                         NoLocals, lf)
          [] f.pc = "cmd_fav_card" ->
                IF ok THEN next
                ELSE IF v = "app" THEN ret
                ELSE Eff(us, file, "cmd_fav_fallback",
                         Call("reply_text", "favorite_card", f.call.arg), f.lv, lf)
          [] f.pc = "cmd_fav_fallback" -> IF ok THEN next ELSE ret
          [] f.pc = "call_last" -> ret

-----------------------------------------------------------------------------
(* asyncio.Lock and get_user_lock *)

NewLock == [locked |-> FALSE, waiters |-> <<>>, woken |-> FALSE]

\* A get_user_lock that makes a Lock on every call
get_user_lock_always_new(ul, lk, uid) ==
    [user_locks |-> Put(ul, uid, Len(lk) + 1), locks |-> Append(lk, NewLock),
     lock |-> Len(lk) + 1]

\* A get_user_lock with one Lock for all users
get_user_lock_global(ul, lk, uid) ==
    IF lk = <<>>
    THEN [user_locks |-> Put(ul, uid, 1), locks |-> <<NewLock>>, lock |-> 1]
    ELSE [user_locks |-> Put(ul, uid, 1), locks |-> lk, lock |-> 1]

\* get_user_lock: no await between the test and the assignment
get_user_lock(ul, lk, uid) ==
    IF uid \notin DOMAIN ul
    THEN [user_locks |-> Put(ul, uid, Len(lk) + 1), locks |-> Append(lk, NewLock),
          lock |-> Len(lk) + 1]
    ELSE [user_locks |-> ul, locks |-> lk, lock |-> ul[uid]]

\* An acquire that never waits
AcquireNoWait(l, t) == [lock |-> [l EXCEPT !.locked = TRUE], acquired |-> TRUE]

\* Lock.acquire up to its await: taken at once when free and nobody waits
Acquire(l, t) ==
    IF ~l.locked /\ l.waiters = <<>>
    THEN [lock |-> [l EXCEPT !.locked = TRUE], acquired |-> TRUE]
    ELSE [lock |-> [l EXCEPT !.waiters = Append(l.waiters, t)], acquired |-> FALSE]

\* A release that unlocks and wakes nobody
ReleaseNoWake(l) == [l EXCEPT !.locked = FALSE]

\* Lock.release: unlocked, and the future of the first waiter gets its result
Release(l) == [l EXCEPT !.locked = FALSE, !.woken = (l.waiters # <<>>)]

-----------------------------------------------------------------------------
(* The events and the steps of the handlers *)

AnswerCall == Call("answer", "none", <<>>)

IOOutcomes == {"ok", "read_fail", "open_fail", "write_fail"}

\* The file operations of a step may fail only where the step has some
IOChoices(f) ==
    IF f.kind = "callback" /\ f.pc = "answer"
       /\ (f.data = S_fav_toggle \/ Split(f.data, "|")[1] = S_fav_remove)
    THEN IOOutcomes ELSE {"ok"}

Record(f, ok) == Append(f.calls, [op |-> f.call.op, msg |-> f.call.msg,
                                  arg |-> f.call.arg, ok |-> ok])

\* A callback query of user uid with callback data d is dispatched to
\* callback_handler, which runs to its first await: in app.py the lock (when
\* it is not free) or query.answer(); in bot.py query.answer()
StartCallback(t, U, D) ==
    /\ tasks[t].pc = "idle"
    /\ \E uid \in U, d \in D :
         LET f == [IdleFrame EXCEPT !.kind = "callback", !.uid = uid, !.data = d]
         IN  IF variant = "app"
             THEN LET g == get_user_lock(user_locks, locks, uid)
                      a == Acquire(g.locks[g.lock], t)
                  IN  /\ user_locks' = g.user_locks
                      /\ locks' = [g.locks EXCEPT ![g.lock] = a.lock]
                      /\ tasks' = [tasks EXCEPT ![t] =
                                     IF a.acquired
                                     THEN [f EXCEPT !.lock = g.lock, !.pc = "answer",
                                                    !.call = AnswerCall]
                                     ELSE [f EXCEPT !.lock = g.lock, !.pc = "lock_wait"]]
             ELSE /\ tasks' = [tasks EXCEPT ![t] =
                                 [f EXCEPT !.pc = "answer", !.call = AnswerCall]]
                  /\ UNCHANGED <<user_locks, locks>>
    /\ UNCHANGED <<variant, listings, user_state, fav_file, last_fav, probe>>

\* Lock.acquire after its await: the waiter whose future has its result leaves
\* the queue and takes the lock
LockResume(t) ==
    /\ tasks[t].pc = "lock_wait"
    /\ locks[tasks[t].lock].woken
    /\ Head(locks[tasks[t].lock].waiters) = t
    /\ locks' = [locks EXCEPT ![tasks[t].lock] =
                    [locked |-> TRUE, waiters |-> Tail(@.waiters), woken |-> FALSE]]
    /\ tasks' = [tasks EXCEPT ![t] = [@ EXCEPT !.pc = "answer", !.call = AnswerCall]]
    /\ UNCHANGED <<variant, listings, user_state, user_locks, fav_file, last_fav, probe>>

\* A command (/start, /favorites, /help) of user uid is dispatched to its
\* handler, which runs to its first await
StartCommand(t, U, K) ==
    /\ tasks[t].pc = "idle"
    /\ \E uid \in U, kind \in K :
         LET e == CommandBegin(variant, kind, user_state, fav_file, uid, listings, last_fav)
         IN  /\ user_state' = e.us
             /\ tasks' = [tasks EXCEPT ![t] =
                            [IdleFrame EXCEPT !.kind = kind, !.uid = uid, !.pc = e.pc,
                                              !.call = e.call, !.lv = e.lv]]
    /\ UNCHANGED <<variant, listings, user_locks, locks, fav_file, last_fav, probe>>

\* The transport call a handler awaits returns (ok) or raises, and the handler
\* runs to its next await or to its end, where its frame is dropped; at the end
\* of callback_handler of app.py, `async with lock` releases the lock
Resume(t) ==
    /\ tasks[t].pc \notin {"idle", "lock_wait"}
    /\ \E ok \in BOOLEAN, io \in IOChoices(tasks[t]) :
       \E f \in {tasks[t]} :
       \E e \in {IF f.kind # "callback"
                 THEN CommandResume(variant, f, ok, user_state, fav_file, last_fav)
                 ELSE IF variant = "app"
                 THEN AppCallbackResume(f, ok, user_state, fav_file, listings, io, last_fav)
                 ELSE BotCallbackResume(f, ok, user_state, fav_file, listings, io, last_fav)} :
             /\ user_state' = e.us
             /\ fav_file' = e.file
             /\ last_fav' = e.lf
             /\ tasks' = [tasks EXCEPT ![t] =
                            IF e.pc = "return" THEN IdleFrame
                            ELSE [f EXCEPT !.pc = e.pc, !.call = e.call, !.lv = e.lv,
                                           !.calls = Record(f, ok)]]
             /\ locks' = IF e.pc = "return" /\ f.lock # 0
                         THEN [locks EXCEPT ![f.lock] = Release(@)]
                         ELSE locks
    /\ UNCHANGED <<variant, listings, user_locks, probe>>

-----------------------------------------------------------------------------
(* The listings, the users and the events explored *)

Listing(title, location, bedrooms, price, url, image_url) ==
    [title |-> title, location |-> location, bedrooms |-> bedrooms, price |-> price,
     url |-> url, image_url |-> image_url]

\* Listings as load_listings leaves them (location stripped and title-cased,
\* bedrooms normalized, price an int).  A and C share one URL.
ListingA == Listing("A", S_Thika, <<"2">>, 15000, "u1", "i1")
ListingB == Listing("B", S_Thika, <<"2">>, 45000, "u2", "")
ListingC == Listing("C", S_Thika, <<"2">>, 20000, "u1", "")

MainListings == <<ListingA, ListingB, ListingC>>

Users == {1, 2}

MaxTasks == 2

Tasks == 1..MaxTasks

\* The callback data of the buttons the keyboards show for these listings
FunnelPayloads ==
    { Join(<<S_location, S_Thika>>, "|"),
      Join(<<S_bedrooms, <<"2">> >>, "|"),
      BudgetData(10001, Fin(20000)),
      BudgetData(0, Fin(10000)),
      Join(<<S_page, S_prev>>, "|"),
      Join(<<S_page, S_next>>, "|"),
      S_fav_toggle, S_back_to_bedrooms, S_back_to_budget, S_restart }

\* The pure function under study, its arguments and, once applied, its result
NoProbe == [fn |-> "none", args |-> <<>>, result |-> FALSE, done |-> FALSE]

\* The state after the module is loaded: empty user_state and user_locks, the
\* listings as load_listings returned them, the favorites file as it was left
InitWith(V, DS, Logs, H) ==
    /\ variant \in V
    /\ listings \in DS
    /\ user_state = EmptyDict
    /\ user_locks = EmptyDict
    /\ locks = <<>>
    /\ fav_file \in Logs
    /\ tasks = [t \in Tasks |-> IdleFrame]
    /\ last_fav = H
    /\ probe = NoProbe

-----------------------------------------------------------------------------
(* Spec: one user going through the funnel in app.py or in bot.py, with
   MaxTasks updates of that user in flight at a time *)

Init == InitWith({"app", "bot"}, {MainListings}, {<<>>}, HistOff)

Next ==
    \E t \in Tasks :
        \/ StartCallback(t, {1}, FunnelPayloads)
        \/ StartCommand(t, {1}, {"start"})
        \/ LockResume(t)
        \/ Resume(t)

Spec == Init /\ [][Next]_vars

\* The page a session is on (app.py reads it with .get("page", 0))
PageOf(st) == Get(st, "page", 0)

PageNext == Join(<<S_page, S_next>>, "|")

PagePrev == Join(<<S_page, S_prev>>, "|")

\* The step in which the callback handler in slot t, suspended on
\* query.answer(), is resumed
AnswerReturns(t) ==
    /\ tasks[t].kind = "callback"
    /\ tasks[t].pc = "answer"
    /\ tasks'[t] # tasks[t]

\* ... with query.answer() having succeeded, so that the branch of the callback
\* data ran, and the handler now waits on the first call of that branch
BranchRan(t) ==
    /\ AnswerReturns(t)
    /\ tasks'[t].pc # "idle"
    /\ tasks'[t].calls[1].ok

\* C1: in app.py and in bot.py alike, whenever a session holds a non-empty
\* result list its page index is an index of that list (0 <= page <= len - 1),
\* in every state reached by callbacks and /start, whatever their interleaving.
C1_PageInRange ==
    \A u \in DOMAIN user_state :
        LET st == user_state[u]
        IN  (Has(st, "results") /\ st["results"] # <<>>)
                => (PageOf(st) >= 0 /\ PageOf(st) <= Len(st["results"]) - 1)

\* A session on the last one of several results with a page|next in flight
C1_Witness ==
    \E u \in DOMAIN user_state, t \in Tasks :
        /\ Has(user_state[u], "results")
        /\ Len(user_state[u]["results"]) >= 2
        /\ PageOf(user_state[u]) = Len(user_state[u]["results"]) - 1
        /\ tasks[t].uid = u
        /\ tasks[t].data = PageNext
        /\ tasks[t].pc = "answer"

\* C9: a page|next whose branch runs on a session with non-empty results moves
\* the page to min(i + 1, len - 1), a page|prev to max(i - 1, 0); the result
\* list is left as it was.  In app.py and in bot.py.
C9_PageStep ==
    [][\A t \in Tasks :
         LET u == tasks[t].uid
         IN  (/\ BranchRan(t)
              /\ tasks[t].data \in {PageNext, PagePrev}
              /\ u \in DOMAIN user_state
              /\ Has(user_state[u], "results")
              /\ user_state[u]["results"] # <<>>)
             => LET i == PageOf(user_state[u])
                    n == Len(user_state[u]["results"])
                IN  /\ user_state'[u]["results"] = user_state[u]["results"]
                    /\ PageOf(user_state'[u]) =
                         IF tasks[t].data = PageNext
                         THEN (IF i + 1 <= n - 1 THEN i + 1 ELSE n - 1)
                         ELSE (IF i - 1 >= 0 THEN i - 1 ELSE 0)]_vars

\* A page|next that ran on the last page and a result page that shows the last
\* one of several results
C9_Witness ==
    \E t \in Tasks :
        /\ tasks[t].kind = "callback"
        /\ tasks[t].data = PageNext
        /\ tasks[t].pc \in {"send_new", "edit_media", "edit_text", "send_photo", "send_text"}
        /\ Len(tasks[t].calls) = 1
        /\ tasks[t].calls[1].ok
        /\ tasks[t].lv.render[1].total >= 2
        /\ tasks[t].lv.render[1].page = tasks[t].lv.render[1].total - 1
        /\ PageOf(user_state[tasks[t].uid]) = tasks[t].lv.render[1].page

-----------------------------------------------------------------------------
(* SpecLock: app.py with two users, whose callbacks and /start commands
   interleave at every await *)

LockPayloads == { Join(<<S_location, S_Thika>>, "|"), S_restart }

InitLock == InitWith({"app"}, {MainListings}, {<<>>}, HistOff)

NextLock ==
    \E t \in Tasks :
        \/ StartCallback(t, Users, LockPayloads)
        \/ StartCommand(t, Users, {"start"})
        \/ LockResume(t)
        \/ Resume(t)

SpecLock == InitLock /\ [][NextLock]_vars

\* The callback handler in slot t is inside `async with lock`
InCritical(t) ==
    /\ tasks[t].kind = "callback"
    /\ tasks[t].pc \notin {"idle", "lock_wait"}

\* C2: no two callback handlers of one user are inside `async with lock` at the
\* same time.
C2_MutualExclusion ==
    \A t1, t2 \in Tasks :
        (t1 # t2 /\ InCritical(t1) /\ InCritical(t2)) => tasks[t1].uid # tasks[t2].uid

\* One handler of a user inside its critical section, suspended on a transport
\* call, and a second handler of that user waiting for the lock
C2_Witness ==
    \E t1, t2 \in Tasks :
        /\ InCritical(t1)
        /\ tasks[t1].pc = "call_final"
        /\ tasks[t2].pc = "lock_wait"
        /\ tasks[t2].uid = tasks[t1].uid

\* user_state[u] after a step differs from user_state[u] before it
SessionWritten(u) ==
    \/ (u \in DOMAIN user_state) # (u \in DOMAIN user_state')
    \/ /\ u \in DOMAIN user_state
       /\ u \in DOMAIN user_state'
       /\ user_state'[u] # user_state[u]

\* C3: every step that writes user_state[u], the reset of cmd_start included,
\* is a step of a handler of u that holds u's lock.
C3_WritesUnderLock ==
    [][\A u \in Users :
         SessionWritten(u) =>
            \E t \in Tasks :
                /\ tasks'[t] # tasks[t]
                /\ InCritical(t)
                /\ tasks[t].uid = u
                /\ u \in DOMAIN user_locks
                /\ tasks[t].lock = user_locks[u]
                /\ locks[user_locks[u]].locked]_vars

\* C4: user_locks[u], once assigned, is never assigned again, and every
\* callback handler of u works with the lock user_locks[u] names.
C4_OneLockPerUser ==
    [][/\ \A u \in DOMAIN user_locks :
             u \in DOMAIN user_locks' /\ user_locks'[u] = user_locks[u]
       /\ \A t \in Tasks :
             tasks'[t].kind = "callback" =>
                /\ tasks'[t].uid \in DOMAIN user_locks'
                /\ tasks'[t].lock = user_locks'[tasks'[t].uid]]_vars

\* Two first-contact callbacks of one user in flight and a single lock made
C4_Witness ==
    /\ Len(locks) = 1
    /\ \A t \in Tasks :
          /\ tasks[t].kind = "callback"
          /\ tasks[t].uid = 1
          /\ tasks[t].lock = user_locks[1]
    /\ 1 \notin DOMAIN user_state

\* C5: a handler that waits for a lock waits for the lock of its own user: the
\* lock it waits for is never one a handler of another user holds or waits for,
\* and a handler of another user inside its critical section holds another lock.
C5_NoCrossUserBlocking ==
    \A t1, t2 \in Tasks :
        (/\ tasks[t1].pc = "lock_wait"
         /\ tasks[t2].kind = "callback"
         /\ tasks[t2].uid # tasks[t1].uid)
            => tasks[t2].lock # tasks[t1].lock

\* Handlers of two users inside their critical sections at the same time, each
\* suspended on a transport call
C5_Witness ==
    \E t1, t2 \in Tasks :
        /\ InCritical(t1)
        /\ InCritical(t2)
        /\ tasks[t1].uid # tasks[t2].uid
        /\ locks[tasks[t1].lock].locked
        /\ locks[tasks[t2].lock].locked

-----------------------------------------------------------------------------
(* SpecFunnel: app.py over a dataset with prices on and next to the ends of the
   budget ranges, every budget button, and /start between the callbacks *)

FunnelListings ==
    << Listing("F1", S_Thika, <<"2">>, 10000, "u1", "i1"),
       Listing("F2", S_Thika, <<"2">>, 10001, "u2", ""),
       Listing("F3", S_Ruiru, <<"2">>, 15000, "u3", ""),
       Listing("F4", S_Thika, <<"2">>, 20000, "u1", ""),
       Listing("F5", S_Thika, <<"2">>, 20001, "u2", "i1"),
       Listing("F6", S_Thika, <<"5">>, 0, "u3", ""),
       Listing("F7", S_Thika, <<"4">>, 1000000, "u1", ""),
       Listing("F8", S_Thika, <<"3">>, 30000, "u2", ""),
       Listing("F9", S_Thika, S_Unknown, 5000, "u3", "") >>

BudgetPayloads ==
    { BudgetData(BUDGET_OPTIONS[i].mn, BUDGET_OPTIONS[i].mx) :
        i \in 1..Len(BUDGET_OPTIONS) }

FilterPayloads ==
    { Join(<<S_location, S_Thika>>, "|"),
      Join(<<S_location, S_Ruiru>>, "|"),
      Join(<<S_bedrooms, <<"2">> >>, "|"),
      Join(<<S_bedrooms, S_4plus>>, "|"),
      PageNext }
    \cup BudgetPayloads

InitFunnel == InitWith({"app"}, {FunnelListings}, {<<>>}, HistOff)

NextFunnel ==
    \E t \in Tasks :
        \/ StartCallback(t, {1}, FilterPayloads)
        \/ StartCommand(t, {1}, {"start"})
        \/ LockResume(t)
        \/ Resume(t)

SpecFunnel == InitFunnel /\ [][NextFunnel]_vars

\* The bedrooms values of which Python's int() makes an integer of 4 or more
FourOrMore ==
    { <<"4">>, <<"5">>, <<"1", "0">>, <<" ", "4">>, <<"+", "4">>, <<"0", "4">>,
      <<"1", "_", "0">> }

\* What the spec asks of the bedrooms test
BedroomsExpected(lb, sel) == IF sel = S_4plus THEN lb \in FourOrMore ELSE lb = sel

\* The handler in slot t has just run the budget branch of option o on a
\* session that holds a location and a bedrooms selection
BudgetRan(t, o) ==
    /\ BranchRan(t)
    /\ tasks[t].data = BudgetData(o.mn, o.mx)
    /\ tasks[t].uid \in DOMAIN user_state
    /\ Has(user_state[tasks[t].uid], "location")
    /\ Has(user_state[tasks[t].uid], "bedrooms")

\* C6: the budget branch on a session with location L and bedrooms B, for a
\* range some listing matches, leaves as results exactly the listings with
\* location L, matching bedrooms and min <= price <= max, in the order of the
\* loaded dataset, and page 0.
C6_BudgetResults ==
    [][\A t \in Tasks : \A i \in 1..Len(BUDGET_OPTIONS) :
         LET o == BUDGET_OPTIONS[i]
             u == tasks[t].uid
         IN  BudgetRan(t, o) =>
               LET Wanted(l) ==
                       /\ l.location = user_state[u]["location"]
                       /\ BedroomsExpected(l.bedrooms, user_state[u]["bedrooms"])
                       /\ o.mn <= l.price
                       /\ (o.mx.inf \/ l.price <= o.mx.n)
                   expected == SelectSeq(listings, Wanted)
               IN  expected # <<>> =>
                      /\ Has(user_state'[u], "results")
                      /\ user_state'[u]["results"] = expected
                      /\ Has(user_state'[u], "page")
                      /\ user_state'[u]["page"] = 0]_vars

\* The first result page of two matches that are not neighbours in the dataset
C6_Witness ==
    \E t \in Tasks :
        /\ tasks[t].data \in BudgetPayloads
        /\ Len(tasks[t].calls) = 1
        /\ tasks[t].calls[1].ok
        /\ tasks[t].pc \in {"send_new", "edit_media", "edit_text"}
        /\ user_state[tasks[t].uid]["results"] = <<listings[2], listings[4]>>
        /\ user_state[tasks[t].uid]["page"] = 0

\* l is one of the results of the session st
InResults(l, st) ==
    /\ Has(st, "results")
    /\ \E j \in 1..Len(st["results"]) : st["results"][j] = l

\* C8: of the listings with the selected location and bedrooms, the budget
\* branch keeps those with min <= price <= max, both ends included (a price of
\* min - 1 or max + 1 is out); with "Any" (max "inf") it keeps every one with
\* price >= 0, the ones priced 0 and 1000000 included.
C8_PriceInclusive ==
    [][\A t \in Tasks : \A i \in 1..Len(BUDGET_OPTIONS) :
         LET o == BUDGET_OPTIONS[i]
             u == tasks[t].uid
         IN  BudgetRan(t, o) =>
               \A k \in 1..Len(listings) :
                  LET l == listings[k]
                  IN  (/\ l.location = user_state[u]["location"]
                       /\ match_bedrooms(l.bedrooms, user_state[u]["bedrooms"]))
                      => (InResults(l, user_state'[u])
                            <=> IF o.mx.inf THEN l.price >= 0
                                ELSE l.price >= o.mn /\ l.price <= o.mx.n)]_vars

\* Results that hold a listing priced min and one priced max, of a dataset
\* that has listings of that location and bedrooms priced min - 1 and max + 1
C8_Witness ==
    \E t \in Tasks : \E i \in 1..Len(BUDGET_OPTIONS) :
        LET o  == BUDGET_OPTIONS[i]
            st == user_state[tasks[t].uid]
        IN  /\ tasks[t].data = BudgetData(o.mn, o.mx)
            /\ ~o.mx.inf
            /\ Len(tasks[t].calls) = 1
            /\ tasks[t].calls[1].ok
            /\ tasks[t].pc \in {"send_new", "edit_media", "edit_text"}
            /\ \E a, b \in 1..Len(st["results"]) :
                  /\ st["results"][a].price = o.mn
                  /\ st["results"][b].price = o.mx.n
            /\ \E c, d \in 1..Len(listings) :
                  /\ listings[c].price = o.mn - 1
                  /\ listings[d].price = o.mx.n + 1
                  /\ listings[c].location = st["location"]
                  /\ listings[d].location = st["location"]
                  /\ listings[c].bedrooms = st["bedrooms"]
                  /\ listings[d].bedrooms = st["bedrooms"]
                  /\ ~InResults(listings[c], st)
                  /\ ~InResults(listings[d], st)

-----------------------------------------------------------------------------
(* SpecMatch: match_bedrooms applied to a bedrooms value and a selection *)

BedroomValues ==
    { <<"0">>, <<"1">>, <<"2">>, <<"3">>, <<"4">>, <<"5">>, <<"1", "0">>,
      <<" ", "4">>, <<"+", "4">>, <<"-", "4">>, <<"0", "4">>, <<"1", "_", "0">>,
      <<"4", ".", "0">>, <<"4", "+">>, <<>>, S_Bedsitter, S_Unknown }

Selections ==
    { BEDROOM_OPTIONS[i] : i \in 1..Len(BEDROOM_OPTIONS) } \cup { <<"4">>, S_Unknown }

InitMatch ==
    /\ variant = "app"
    /\ listings = <<>>
    /\ user_state = EmptyDict
    /\ user_locks = EmptyDict
    /\ locks = <<>>
    /\ fav_file = <<>>
    /\ tasks = [t \in Tasks |-> IdleFrame]
    /\ last_fav = HistOff
    /\ probe \in { [fn |-> "match_bedrooms", args |-> <<lb, sel>>, result |-> FALSE,
                    done |-> FALSE] : lb \in BedroomValues, sel \in Selections }

ApplyMatch ==
    /\ probe.fn = "match_bedrooms"
    /\ ~probe.done
    /\ probe' = [probe EXCEPT !.result = match_bedrooms(probe.args[1], probe.args[2]),
                              !.done = TRUE]
    /\ UNCHANGED <<variant, listings, user_state, user_locks, locks, fav_file, tasks,
                   last_fav>>

NextMatch == ApplyMatch

SpecMatch == InitMatch /\ [][NextMatch]_vars

\* C7: match_bedrooms(lb, "4+") is true exactly when int(lb) succeeds with a
\* value of 4 or more ("4" and "5" match, "3", "Bedsitter" and "Unknown" do
\* not); for any other selection it is true exactly when lb is that selection.
C7_MatchBedrooms ==
    probe.done =>
        /\ probe.result = BedroomsExpected(probe.args[1], probe.args[2])
        /\ (probe.args[2] = S_4plus /\ probe.args[1] \in {<<"4">>, <<"5">>})
              => probe.result
        /\ (probe.args[2] = S_4plus
              /\ probe.args[1] \in {<<"3">>, S_Bedsitter, S_Unknown})
              => ~probe.result

\* match_bedrooms("4", "4+") was computed, and is true
C7_Witness ==
    /\ probe.done
    /\ probe.args = << <<"4">>, S_4plus >>
    /\ probe.result

-----------------------------------------------------------------------------
(* SpecToggle: the callbacks of app.py with the history of the favorites
   operations kept, over an empty favorites file and over one that holds two
   rows of user 1 for one URL, with file operations that may fail *)

FavRow(user_id, listing) == add_favorite(<<>>, user_id, listing, "ok").file[1]

DupLog == <<FavRow(1, ListingA), FavRow(2, ListingA), FavRow(1, ListingC)>>

TogglePayloads ==
    { Join(<<S_location, S_Thika>>, "|"),
      Join(<<S_bedrooms, <<"2">> >>, "|"),
      BudgetData(0, PyInf),
      PageNext,
      S_fav_toggle,
      Join(<<S_fav_remove, _md5("u1")>>, "|") }

ToggleListings == <<ListingA, ListingB>>

InitToggle == InitWith({"app"}, {ToggleListings}, {<<>>, DupLog}, NoFav)

NextToggle ==
    \E t \in Tasks :
        \/ StartCallback(t, {1}, TogglePayloads)
        \/ LockResume(t)
        \/ Resume(t)

SpecToggle == InitToggle /\ [][NextToggle]_vars

\* The last two favorites operations were fav_toggle actions of one user on
\* one URL hash
TogglePair == last_fav.pair # <<>>

-----------------------------------------------------------------------------
(* SpecFav: the callbacks of one user in app.py over a favorites file that is
   empty at the start, with results that hold two listings of one URL and one of another,
   and file operations that may fail *)

FavPayloads ==
    { Join(<<S_location, S_Thika>>, "|"),
      Join(<<S_bedrooms, <<"2">> >>, "|"),
      BudgetData(0, PyInf),
      PageNext,
      S_fav_toggle,
      Join(<<S_fav_remove, _md5("u1")>>, "|") }

InitFav == InitWith({"app"}, {MainListings}, {<<>>}, HistOff)

NextFav ==
    \E t \in Tasks :
        \/ StartCallback(t, {1}, FavPayloads)
        \/ LockResume(t)
        \/ Resume(t)

SpecFav == InitFav /\ [][NextFav]_vars

\* The records of the file that are of user_id and of the URL hash url_hash
RecordsOf(file, user_id, url_hash) ==
    { i \in 1..Len(file) :
        file[i].user_id = PyStr(user_id) /\ _md5(file[i].url) = url_hash }

-----------------------------------------------------------------------------
(* SpecStore: remove_favorite_by_hash and add_favorite of app.py applied to a
   favorites file of up to MaxLog rows of two users, with every outcome of the
   file operations *)

MaxLog == 3

StoreRows == { FavRow(u, l) : u \in Users, l \in {ListingA, ListingB, ListingC} }

StoreLogs == UNION { [1..k -> StoreRows] : k \in 0..MaxLog }

NoListing == Listing("", <<>>, <<>>, 0, "", "")

StoreArgs(file, user_id, url_hash, listing, io) ==
    [file |-> file, user_id |-> user_id, url_hash |-> url_hash, listing |-> listing,
     io |-> io]

InitStore ==
    /\ variant = "app"
    /\ listings = MainListings
    /\ user_state = EmptyDict
    /\ user_locks = EmptyDict
    /\ locks = <<>>
    /\ fav_file = <<>>
    /\ tasks = [t \in Tasks |-> IdleFrame]
    /\ last_fav = HistOff
    /\ probe \in
         { [fn |-> "remove_favorite_by_hash",
            args |-> StoreArgs(file, u, _md5(url), NoListing, io),
            result |-> [file |-> <<>>, ret |-> FALSE], done |-> FALSE] :
             file \in StoreLogs, u \in Users, url \in {"u1", "u2", "u3"},
             io \in IOOutcomes }
         \cup
         { [fn |-> "add_favorite",
            args |-> StoreArgs(file, u, _md5(l.url), l, io),
            result |-> [file |-> <<>>, ret |-> FALSE], done |-> FALSE] :
             file \in StoreLogs, u \in Users, l \in {ListingA, ListingB, ListingC},
             io \in {"ok", "open_fail"} }

ApplyRemove ==
    /\ probe.fn = "remove_favorite_by_hash"
    /\ ~probe.done
    /\ probe' = [probe EXCEPT
                   !.result = remove_favorite_by_hash(probe.args.file, probe.args.user_id,
                                                      probe.args.url_hash, probe.args.io),
                   !.done = TRUE]
    /\ UNCHANGED <<variant, listings, user_state, user_locks, locks, fav_file, tasks,
                   last_fav>>

ApplyAdd ==
    /\ probe.fn = "add_favorite"
    /\ ~probe.done
    /\ probe' = [probe EXCEPT
                   !.result = add_favorite(probe.args.file, probe.args.user_id,
                                           probe.args.listing, probe.args.io),
                   !.done = TRUE]
    /\ UNCHANGED <<variant, listings, user_state, user_locks, locks, fav_file, tasks,
                   last_fav>>

NextStore == ApplyRemove \/ ApplyAdd

SpecStore == InitStore /\ [][NextStore]_vars

\* C12: after remove_favorite_by_hash(user, h) returned with no I/O failure,
\* the file holds no record of that user with URL hash h, and the value
\* returned is true exactly if the file held such a record before the call.
C12_RemovePostcondition ==
    (/\ probe.done
     /\ probe.fn = "remove_favorite_by_hash"
     /\ probe.args.io = "ok")
        => /\ RecordsOf(probe.result.file, probe.args.user_id, probe.args.url_hash) = {}
           /\ probe.result.ret
                <=> (RecordsOf(probe.args.file, probe.args.user_id,
                               probe.args.url_hash) # {})

\* A removal, with no I/O failure, from a file that held two records of the
\* user with the hash and one record of the other user with that hash
C12_Witness ==
    /\ probe.done
    /\ probe.fn = "remove_favorite_by_hash"
    /\ probe.args.io = "ok"
    /\ Cardinality(RecordsOf(probe.args.file, probe.args.user_id,
                             probe.args.url_hash)) = 2
    /\ Len(probe.args.file) = 3
    /\ Len(probe.result.file) = 1
    /\ _md5(probe.result.file[1].url) = probe.args.url_hash
    /\ probe.result.ret

\* The records of the file other than those of user_id with hash url_hash
OtherRecords(file, user_id, url_hash) ==
    LET Other(r) == ~(r.user_id = PyStr(user_id) /\ _md5(r.url) = url_hash)
    IN  SelectSeq(file, Other)

\* C13: remove_favorite_by_hash(U, h) and add_favorite(U, listing) leave in the
\* file, in their order, every record of another user (those with hash h too)
\* and every record of U with another hash, so load_user_favorites(V) is the
\* same before and after for every other user V.
C13_StoreFrame ==
    probe.done =>
        /\ probe.fn = "remove_favorite_by_hash" =>
              OtherRecords(probe.result.file, probe.args.user_id, probe.args.url_hash)
                = OtherRecords(probe.args.file, probe.args.user_id, probe.args.url_hash)
        /\ probe.fn = "add_favorite" =>
              /\ Len(probe.result.file) >= Len(probe.args.file)
              /\ SubSeq(probe.result.file, 1, Len(probe.args.file)) = probe.args.file
        /\ \A v \in Users \ {probe.args.user_id} :
              load_user_favorites(probe.result.file, v)
                = load_user_favorites(probe.args.file, v)

-----------------------------------------------------------------------------
(* Restart, back, empty results, actions on a session without results and the
   acknowledgement of the callback query, under Spec *)

\* The session of user u; a user without an entry in user_state has none of
\* the keys
SessionOf(us, u) == Get(us, u, EmptyDict)

\* The keys the two programs keep the price range under
RangeKeys == {"min_price", "max_price", "budget_min", "budget_max"}

ResultKeys == {"results", "page", "display"}

\* The session st2 holds key k exactly if st1 does, with the same value
SameAt(st1, st2, k) ==
    /\ Has(st1, k) <=> Has(st2, k)
    /\ Has(st1, k) => st2[k] = st1[k]

\* C14: in app.py and in bot.py, the restart branch leaves the session with no
\* location, bedrooms, price range, results, page or display reference.
C14_RestartClears ==
    [][\A t \in Tasks :
         (BranchRan(t) /\ tasks[t].data = S_restart)
            => \A k \in {"location", "bedrooms"} \cup RangeKeys \cup ResultKeys :
                  ~Has(SessionOf(user_state', tasks[t].uid), k)]_vars

\* The restart branch has run, the handler waits on its edit of the message,
\* and the session is empty
C14_Witness ==
    \E t \in Tasks :
        /\ tasks[t].kind = "callback"
        /\ tasks[t].data = S_restart
        /\ Len(tasks[t].calls) = 1
        /\ tasks[t].calls[1].ok
        /\ tasks[t].call.msg = "welcome"
        /\ tasks[t].uid \in DOMAIN user_state
        /\ user_state[tasks[t].uid] = EmptyDict

\* C15: in app.py and in bot.py, after the back_to_bedrooms branch the session
\* has no price range, results, page or display reference and its location is
\* as it was; after the back_to_budget branch it has no results, page or
\* display reference and its location and bedrooms are as they were.
C15_BackClears ==
    [][\A t \in Tasks :
         LET st1 == SessionOf(user_state, tasks[t].uid)
             st2 == SessionOf(user_state', tasks[t].uid)
         IN  /\ (BranchRan(t) /\ tasks[t].data = S_back_to_bedrooms)
                   => /\ \A k \in RangeKeys \cup ResultKeys : ~Has(st2, k)
                      /\ SameAt(st1, st2, "location")
             /\ (BranchRan(t) /\ tasks[t].data = S_back_to_budget)
                   => /\ \A k \in ResultKeys : ~Has(st2, k)
                      /\ SameAt(st1, st2, "location")
                      /\ SameAt(st1, st2, "bedrooms")]_vars

\* C16: in app.py and in bot.py, when the filter of a budget selection matches
\* nothing (the handler goes on to send the "no listings found" prompt), the
\* session holds no non-empty results, of this search or of an earlier one.
C16_NoResultsLeft ==
    [][\A t \in Tasks :
         (BranchRan(t) /\ tasks'[t].call.msg = "no_listings_found")
            => Get(SessionOf(user_state', tasks[t].uid), "results", <<>>) = <<>>]_vars

\* The messages that direct the user to /start
RestartMessages ==
    {"session_expired", "expired_or_no_results", "something_went_wrong", "budget_error"}

\* C17: in app.py, a page|prev, page|next or fav_toggle callback handled on a
\* session without results is answered with a message that directs the user to
\* /start, and no step of its handler changes the session or the favorites
\* file.
C17_NoResultsLeavesSession ==
    [][\A t \in Tasks :
         (/\ variant = "app"
          /\ tasks[t].kind = "callback"
          /\ tasks[t].data \in {PagePrev, PageNext, S_fav_toggle})
            => LET st1 == SessionOf(user_state, tasks[t].uid)
                   st2 == SessionOf(user_state', tasks[t].uid)
               IN  /\ (BranchRan(t) /\ Get(st1, "results", <<>>) = <<>>)
                        => /\ st2 = st1
                           /\ fav_file' = fav_file
                           /\ tasks'[t].call.op = "reply_text"
                           /\ tasks'[t].call.msg \in RestartMessages
                   /\ (/\ tasks'[t] # tasks[t]
                       /\ tasks[t].pc \notin {"idle", "lock_wait", "answer"}
                       /\ tasks[t].call.msg \in RestartMessages)
                        => (st2 = st1 /\ fav_file' = fav_file)]_vars

\* A page|next on a session that holds a location and no results, answered with
\* the except clause's message
C17_Witness ==
    \E t \in Tasks :
        /\ variant = "app"
        /\ tasks[t].kind = "callback"
        /\ tasks[t].data = PageNext
        /\ Len(tasks[t].calls) = 1
        /\ tasks[t].calls[1].ok
        /\ tasks[t].call.msg = "something_went_wrong"
        /\ tasks[t].uid \in DOMAIN user_state
        /\ Has(user_state[tasks[t].uid], "location")
        /\ ~Has(user_state[tasks[t].uid], "results")

\* The number of query.answer calls a handler has made, the one it waits on
\* included
AnswerCount(f) ==
    Cardinality({ i \in 1..Len(f.calls) : f.calls[i].op = "answer" })
    + (IF f.call.op = "answer" THEN 1 ELSE 0)

\* C20: in app.py and in bot.py, a callback handler calls query.answer exactly
\* once, whatever its branch.
C20_AnsweredOnce ==
    \A t \in Tasks :
        (tasks[t].kind = "callback" /\ tasks[t].pc \notin {"idle", "lock_wait"})
            => AnswerCount(tasks[t]) = 1

-----------------------------------------------------------------------------
(* SpecInvalid: app.py and bot.py with callback data no keyboard carries: a
   parameter missing, a budget of two parts, a budget bound that is no number,
   an action name the handler does not know *)

S_bogus == <<"b", "o", "g", "u", "s">>

InvalidPayloads ==
    { S_location,
      S_page,
      S_fav_remove,
      Join(<<S_budget, <<"1", "0", "0">> >>, "|"),
      Join(<<S_budget, <<"a", "b", "c">>, <<"1", "0", "0">> >>, "|"),
      S_bogus }

SelectionPayloads ==
    { Join(<<S_location, S_Thika>>, "|"), Join(<<S_bedrooms, <<"2">> >>, "|") }

InitInvalid == InitWith({"app", "bot"}, {MainListings}, {<<>>}, HistOff)

NextInvalid ==
    \E t \in Tasks :
        \/ StartCallback(t, {1}, SelectionPayloads \cup InvalidPayloads)
        \/ LockResume(t)
        \/ Resume(t)

SpecInvalid == InitInvalid /\ [][NextInvalid]_vars

\* C18: in app.py and in bot.py, a callback whose data is malformed or names
\* no known action leaves the session as it was and is answered with a message
\* that directs the user to /start.  (Stated of the handlers whose
\* query.answer() returned; in bot.py, of those that go on to another call.)
C18_InvalidPayload ==
    [][\A t \in Tasks :
         (/\ AnswerReturns(t)
          /\ tasks[t].data \in InvalidPayloads
          /\ tasks'[t].pc # "idle" => tasks'[t].calls[1].ok
          /\ variant = "bot" => tasks'[t].pc # "idle")
            => /\ SessionOf(user_state', tasks[t].uid) = SessionOf(user_state, tasks[t].uid)
               /\ tasks'[t].pc # "idle"
               /\ tasks'[t].call.op = "reply_text"
               /\ tasks'[t].call.msg \in RestartMessages]_vars

\* C19: in app.py, when the file operation of a fav_toggle fails, the handler
\* does not go on to tell the user that the listing was added or removed.
C19_FailureIsReported ==
    \A t \in Tasks :
        (/\ tasks[t].kind = "callback"
         /\ tasks[t].data = S_fav_toggle
         /\ tasks[t].pc = "toggled_reply"
         /\ last_fav.uid = tasks[t].uid
         /\ ~last_fav.ok)
            => tasks[t].call.msg \notin {"added_to_favorites", "removed_from_favorites"}

-----------------------------------------------------------------------------
(* The result page of app.py: edit or send, the display reference, the
   buttons *)

\* C21: in app.py, when send_or_edit_listing goes on to send a new message for
\* a session that holds a display reference, it comes from an edit of the
\* referenced message that raised; it never sends without having tried the
\* edit.  For the result page of a budget selection, of page|prev, page|next
\* and of fav_toggle alike.
C21_EditBeforeSend ==
    [][\A t \in Tasks :
         (/\ variant = "app"
          /\ tasks'[t].kind = "callback"
          /\ tasks'[t].pc = "send_new"
          /\ tasks[t].pc # "send_new"
          /\ Has(SessionOf(user_state', tasks'[t].uid), "display"))
            => /\ tasks[t].pc = "edit_text"
               /\ ~tasks'[t].calls[Len(tasks'[t].calls)].ok]_vars

\* The calls of the frame f that sent a result page as a new message
ResultSends(f) ==
    { i \in 1..Len(f.calls) :
        f.calls[i].op \in {"reply_photo", "reply_text"} /\ f.calls[i].msg = "result_page" }

\* The edits of the referenced message the frame f has tried, all of which raised
FailedEdits(f) ==
    { i \in 1..Len(f.calls) :
        f.calls[i].op \in {"edit_message_media", "edit_message_text"} /\ ~f.calls[i].ok }

\* C22: in app.py send_or_edit_listing, an edit of the referenced message that
\* returns ends the function: no new message is sent and the session is as it
\* was.  An edit_message_media that raises is followed by edit_message_text;
\* when that raises too, one reply_photo/reply_text of the result page is
\* made, the first of this handler, and when it returns the session's display
\* reference is the chat and message id of the message sent, an id no message
\* referred to so far has, and nothing else of the session changes.
C22_EditOrOneSend ==
    [][\A t \in Tasks :
         LET f   == tasks[t]
             g   == tasks'[t]
             u   == f.uid
             st1 == SessionOf(user_state, u)
             st2 == SessionOf(user_state', u)
         IN  (variant = "app" /\ f.kind = "callback" /\ g # f) =>
               /\ f.pc = "edit_media" =>
                    /\ st2 = st1
                    /\ g.pc \in {"idle", "edit_text"}
                    /\ g.pc = "edit_text" =>
                          (g.call.op = "edit_message_text" /\ ~g.calls[Len(g.calls)].ok)
               /\ f.pc = "edit_text" =>
                    /\ st2 = st1
                    /\ ResultSends(f) = {}
                    /\ g.pc \in {"idle", "send_new"}
                    /\ g.pc = "send_new" =>
                          /\ g.call.op \in {"reply_photo", "reply_text"}
                          /\ g.call.msg = "result_page"
                          /\ ~g.calls[Len(g.calls)].ok
               /\ (f.pc = "send_new" /\ FailedEdits(f) # {}) =>
                    /\ ResultSends(f) = {}
                    /\ g.pc \in {"idle", "call_last"}
                    /\ g.pc = "call_last" => st2 = st1
                    /\ g.pc = "idle" =>
                          /\ Has(st2, "display")
                          /\ st2["display"].chat_id = u
                          /\ st2["display"].message_id \notin LiveIds(u)
                          /\ \A k \in (DOMAIN st1 \cup DOMAIN st2) \ {"display"} :
                                SameAt(st1, st2, k)]_vars

\* Both edits of the referenced message raised and the handler waits on the
\* send of the new message, the session still holding the old reference
C22_Witness ==
    \E t \in Tasks :
        /\ variant = "app"
        /\ tasks[t].kind = "callback"
        /\ tasks[t].pc = "send_new"
        /\ Cardinality(FailedEdits(tasks[t])) = 2
        /\ Has(SessionOf(user_state, tasks[t].uid), "display")

\* The keys app.py stores in a session
SessionKeys ==
    {"location", "bedrooms", "min_price", "max_price", "results", "page", "display"}

Offers(kb, d) == \E i \in 1..Len(kb) : kb[i] = d

\* C24: in app.py, in the step in which send_or_edit_listing computes a result
\* page, the page is that of the session's page index i and of its n results,
\* and its keyboard offers page|prev exactly if i > 0 and page|next exactly if
\* i < n - 1: with a single result, neither.  So for the results [A] that
\* Thika, bedrooms 2, budget 10001-20000 give over A at 15000 and B at 45000.
C24_PrevNextOffered ==
    [][/\ \A t \in Tasks :
            LET f == tasks[t]
                g == tasks'[t]
            IN  (/\ variant = "app"
                 /\ g.kind = "callback"
                 /\ g.lv.render # <<>>
                 /\ f.lv.render = <<>>)
                  => LET r  == g.lv.render[1]
                         st == SessionOf(user_state', g.uid)
                     IN  /\ r.page = PageOf(st)
                         /\ r.total = Len(st["results"])
                         /\ Offers(r.markup, PagePrev) <=> r.page > 0
                         /\ Offers(r.markup, PageNext) <=> r.page < r.total - 1
                         /\ r.total = 1 =>
                               (~Offers(r.markup, PagePrev) /\ ~Offers(r.markup, PageNext))
       /\ LET res == AppFilter(<<ListingA, ListingB>>, S_Thika, <<"2">>, 10001, Fin(20000))
              kb  == build_pagination_keyboard(0, Len(res), FALSE)
          IN  /\ res = <<ListingA>>
              /\ ~Offers(kb, PagePrev)
              /\ ~Offers(kb, PageNext)]_vars

\* The page of a single result, computed for a budget selection and offering
\* neither Prev nor Next
C24_Witness ==
    \E t \in Tasks :
        /\ tasks[t].kind = "callback"
        /\ tasks[t].data \in BudgetPayloads
        /\ tasks[t].lv.render # <<>>
        /\ tasks[t].lv.render[1].total = 1
        /\ tasks[t].lv.render[1].page = 0
        /\ ~Offers(tasks[t].lv.render[1].markup, PagePrev)
        /\ ~Offers(tasks[t].lv.render[1].markup, PageNext)

-----------------------------------------------------------------------------
(* SpecCodec: the callback data the keyboards of app.py build from an action
   and its parameters, decoded as callback_handler decodes it and built again *)

\* The callback data of a button: f"location|{loc}", f"bedrooms|{b}",
\* f"budget|{mn}|{mx_serial}", "page|prev", "page|next",
\* f"fav_remove|{url_hash}", or the bare action name
KeyboardData(d) ==
    IF d.action = S_budget THEN BudgetData(d.mn, d.mx)
    ELSE IF d.action \in {S_location, S_bedrooms, S_page, S_fav_remove}
    THEN Join(<<d.action, d.param>>, "|")
    ELSE d.action

\* A decoding that has no test for "inf": int("inf") raises ValueError
AppDecodeNoInf(data) ==
    LET parts == Split(data, "|")
    IN  IF parts[1] = S_budget
        THEN [ok |-> Len(parts) = 3 /\ PyInt(parts[2]).ok /\ PyInt(parts[3]).ok,
              action |-> parts[1], param |-> <<>>,
              mn |-> PyInt(parts[2]).val, mx |-> Fin(PyInt(parts[3]).val)]
        ELSE [ok |-> Len(parts) >= 2, action |-> parts[1],
              param |-> IF Len(parts) >= 2 THEN parts[2] ELSE <<>>,
              mn |-> 0, mx |-> PyInf]

\* What callback_handler reads from the callback data: parts = data.split("|"),
\* action = parts[0], and in the branch of the action parts[1] or, for budget,
\* int(parts[1]) and parts[2] as "inf" or an int.  ok: nothing raised and the
\* branch did not reject the data.
AppDecode(data) ==
    LET parts  == Split(data, "|")
        action == parts[1]
    IN  IF action \in {S_location, S_bedrooms, S_page, S_fav_remove}
        THEN [ok |-> Len(parts) >= 2, action |-> action,
              param |-> IF Len(parts) >= 2 THEN parts[2] ELSE <<>>,
              mn |-> 0, mx |-> PyInf]
        ELSE IF action = S_budget
        THEN IF Len(parts) = 3 /\ PyInt(parts[2]).ok
                /\ (parts[3] = S_inf \/ PyInt(parts[3]).ok)
             THEN [ok |-> TRUE, action |-> action, param |-> <<>>,
                   mn |-> PyInt(parts[2]).val,
                   mx |-> IF parts[3] = S_inf THEN PyInf ELSE Fin(PyInt(parts[3]).val)]
             ELSE [ok |-> FALSE, action |-> action, param |-> <<>>, mn |-> 0, mx |-> PyInf]
        ELSE [ok |-> TRUE, action |-> action, param |-> <<>>, mn |-> 0, mx |-> PyInf]

\* The buttons explored: the locations of the listings and of the default list,
\* the bedroom options, price ranges with bounds of one to seven digits, the
\* two directions, the hashes of the URLs, the actions without parameter
CodecButtons ==
    { [action |-> S_location, param |-> L, mn |-> 0, mx |-> PyInf] :
        L \in {S_Thika, S_Ruiru, <<"K", "i", "a", "m", "b", "u", " ", "T", "o", "w", "n">>} }
    \cup { [action |-> S_bedrooms, param |-> BEDROOM_OPTIONS[i], mn |-> 0, mx |-> PyInf] :
             i \in 1..Len(BEDROOM_OPTIONS) }
    \cup { [action |-> S_budget, param |-> <<>>, mn |-> a, mx |-> b] :
             a \in {0, 7, 10001, 20001, 30001},
             b \in {Fin(0), Fin(10000), Fin(20000), Fin(30000), Fin(50000),
                    Fin(1000000), PyInf} }
    \cup { [action |-> S_page, param |-> d, mn |-> 0, mx |-> PyInf] : d \in {S_prev, S_next} }
    \cup { [action |-> S_fav_remove, param |-> _md5(u), mn |-> 0, mx |-> PyInf] :
             u \in {"u1", "u2", "u3", ""} }
    \cup { [action |-> a, param |-> <<>>, mn |-> 0, mx |-> PyInf] :
             a \in {S_fav_toggle, S_restart, S_back_to_bedrooms, S_back_to_budget,
                    S_favorites, S_help} }

InitCodec ==
    /\ variant = "app"
    /\ listings = <<>>
    /\ user_state = EmptyDict
    /\ user_locks = EmptyDict
    /\ locks = <<>>
    /\ fav_file = <<>>
    /\ tasks = [t \in Tasks |-> IdleFrame]
    /\ last_fav = HistOff
    /\ probe \in { [fn |-> "decode", args |-> [button |-> b, data |-> KeyboardData(b)],
                    result |-> [decoded |-> <<>>, encoded |-> <<>>], done |-> FALSE] :
                     b \in CodecButtons }

ApplyDecode ==
    /\ probe.fn = "decode"
    /\ probe' = [probe EXCEPT !.fn = "encode",
                              !.result.decoded = <<AppDecode(probe.args.data)>>]
    /\ UNCHANGED <<variant, listings, user_state, user_locks, locks, fav_file, tasks,
                   last_fav>>

ApplyEncode ==
    /\ probe.fn = "encode"
    /\ ~probe.done
    /\ probe.result.decoded[1].ok
    /\ probe' = [probe EXCEPT !.result.encoded = KeyboardData(probe.result.decoded[1]),
                              !.done = TRUE]
    /\ UNCHANGED <<variant, listings, user_state, user_locks, locks, fav_file, tasks,
                   last_fav>>

NextCodec == ApplyDecode \/ ApplyEncode

SpecCodec == InitCodec /\ [][NextCodec]_vars

\* C25: in app.py, the callback data of every button (of a parameter that does
\* not hold the separator) is decoded by callback_handler without an error to
\* the action and the parameters the button was built from - the parameter
\* whole, "inf" as float("inf"), every other bound as the same integer - and
\* built again from what was decoded it is the same callback data.
C25_RoundTrip ==
    /\ probe.fn = "encode" =>
          LET d == probe.result.decoded[1]
              b == probe.args.button
          IN  /\ d.ok
              /\ d.action = b.action
              /\ d.param = b.param
              /\ d.mn = b.mn
              /\ d.mx = b.mx
    /\ (probe.fn = "encode" /\ probe.done) => probe.result.encoded = probe.args.data

\* budget|10001|inf decoded to (10001, float("inf")) and built again
C25_Witness ==
    /\ probe.fn = "encode"
    /\ probe.done
    /\ probe.args.data = Join(<<S_budget, <<"1", "0", "0", "0", "1">>, S_inf>>, "|")
    /\ probe.result.decoded[1].mn = 10001
    /\ probe.result.decoded[1].mx = PyInf
    /\ probe.result.encoded = probe.args.data

-----------------------------------------------------------------------------
(* SpecUsers: app.py with two users, one update of each in flight at a time
   (slot t serves user t, so no handler waits for a lock), each going through
   the funnel, toggling and removing the favorite of the first listing,
   opening the favorites view and sending /start and /favorites, with file
   operations that may fail *)

NextUsers ==
    \E t \in Tasks :
        \/ StartCallback(t, {t} \cap Users, (TogglePayloads \ {PageNext}) \cup {S_favorites})
        \/ StartCommand(t, {t} \cap Users, {"start", "favorites"})
        \/ Resume(t)

SpecUsers == InitWith({"app"}, {ToggleListings}, {<<>>}, HistOff) /\ [][NextUsers]_vars

\* The user whose handler takes the step: the one of the slot whose frame changes
StepOf(t, u) ==
    /\ tasks'[t] # tasks[t]
    /\ \/ tasks[t].uid = u
       \/ tasks[t].pc = "idle" /\ tasks'[t].uid = u

\* C26: in app.py, a step that changes user_state[V], or gives V a session, is
\* a step of a handler of V: the handlers of another user U (callback_handler
\* in each of its branches, cmd_start, cmd_favorites), whether their transport
\* calls and file operations return or raise, leave the session of V as it was.
C26_OtherSessionsUnchanged ==
    [][\A v \in Users :
         SessionWritten(v) => \E t \in Tasks : StepOf(t, v)]_vars

\* A handler of user 1 in its except clause while user 2 holds results and a
\* display reference
C26_Witness ==
    \E t \in Tasks :
        /\ tasks[t].uid = 1
        /\ tasks[t].kind = "callback"
        /\ tasks[t].call.msg = "something_went_wrong"
        /\ 2 \in DOMAIN user_state
        /\ Has(user_state[2], "results")
        /\ Has(user_state[2], "display")

\* The records of the file that are of user_id, in file order
RecordsOfUser(file, user_id) ==
    LET Mine(r) == r.user_id = PyStr(user_id) IN SelectSeq(file, Mine)

\* C27: in app.py, whatever the interleaving of the handlers of two users,
\* every step that changes the favorites file is one whole operation of the
\* user U whose handler takes the step, applied to the file as the operation
\* before it left it: the append of one record of U, or the removal of the
\* records of U with one URL hash; and it leaves the records of every other
\* user V in the file, in their order (none that V appended is lost, none that
\* V removed comes back).
C27_SerialFavorites ==
    [][fav_file' # fav_file =>
         \E t \in Tasks : \E u \in Users :
            /\ StepOf(t, u)
            /\ \/ /\ Len(fav_file') = Len(fav_file) + 1
                  /\ SubSeq(fav_file', 1, Len(fav_file)) = fav_file
                  /\ fav_file'[Len(fav_file')].user_id = PyStr(u)
               \/ \E h \in {_md5(url) : url \in {"u1", "u2"}} :
                     fav_file' = OtherRecords(fav_file, u, h)
            /\ \A v \in Users \ {u} :
                  RecordsOfUser(fav_file', v) = RecordsOfUser(fav_file, v)]_vars

-----------------------------------------------------------------------------
(* SpecView: the callbacks of one user in app.py, the favorites button and
   /favorites among them, over a favorites file that is empty at the start or
   holds a record of another user, with two updates in flight *)

NextView ==
    \E t \in Tasks :
        \/ StartCallback(t, {1}, FavPayloads \cup {S_favorites})
        \/ StartCommand(t, {1}, {"favorites"})
        \/ LockResume(t)
        \/ Resume(t)

SpecView ==
    InitWith({"app"}, {MainListings}, {<<>>, <<FavRow(2, ListingA)>>}, HistOff)
        /\ [][NextView]_vars

\* C28: in app.py, the favorites view, opened by the favorites button or by
\* /favorites, starts with the card of the first record of the user in the
\* file and keeps the rest to send, or, when the file holds no record of the
\* user, sends the "no favorites" text and no card; every card that was sent
\* is followed by the card of the next record, until none is left; and the
\* remove button of a card decodes to fav_remove with the hash of the URL of
\* the record the card shows.  (Of the views whose sends return: a send that
\* raises ends the view.)
C28_FavoritesView ==
    [][\A t \in Tasks :
         LET f    == tasks[t]
             g    == tasks'[t]
             u    == g.uid
             recs == RecordsOfUser(fav_file, u)
         IN  /\ (/\ variant = "app"
                 /\ \/ BranchRan(t) /\ f.data = S_favorites
                    \/ f.pc = "idle" /\ g.kind = "favorites")
                  => IF recs = <<>>
                     THEN /\ g.call.op = "reply_text"
                          /\ g.call.msg = "no_favorites"
                          /\ g.lv.favs = <<>>
                     ELSE /\ g.call.msg = "favorite_card"
                          /\ g.call.arg.row = recs[1]
                          /\ g.lv.favs = Tail(recs)
             /\ (f.pc \in {"fav_card", "cmd_fav_card"} /\ g # f)
                  => /\ g.pc \in {"fav_card", "cmd_fav_card"}
                          => /\ g.calls[Len(g.calls)].ok
                             /\ f.lv.favs # <<>>
                             /\ g.call.msg = "favorite_card"
                             /\ g.call.arg.row = Head(f.lv.favs)
                             /\ g.lv.favs = Tail(f.lv.favs)
                     /\ (g.pc = "idle" /\ f.kind = "callback") => f.lv.favs = <<>>
                     /\ g.pc \notin {"idle", "fav_card", "cmd_fav_card"}
                          => ~g.calls[Len(g.calls)].ok
             /\ g.call.msg = "favorite_card"
                  => LET d == AppDecode(g.call.arg.remove)
                     IN  /\ d.ok
                         /\ d.action = S_fav_remove
                         /\ d.param = _md5(g.call.arg.row.url)
                         /\ g.call.arg.row.user_id = PyStr(u)]_vars

\* The view of a user who saved listing A and nothing else, in a file that
\* holds a record of another user: the card of A is the first and the last
C28_Witness ==
    \E t \in Tasks :
        /\ tasks[t].pc \in {"fav_card", "cmd_fav_card"}
        /\ tasks[t].call.msg = "favorite_card"
        /\ tasks[t].call.arg.row.title = "A"
        /\ tasks[t].calls # <<>> => Len(tasks[t].calls) = 1 /\ tasks[t].kind = "callback"
        /\ tasks[t].lv.favs = <<>>
        /\ RecordsOfUser(fav_file, tasks[t].uid) = <<FavRow(tasks[t].uid, ListingA)>>
        /\ Len(fav_file) = 2

-----------------------------------------------------------------------------
(* The selections of a session of app.py *)

\* C29: in app.py, in every reachable state, a session that holds a bedrooms
\* selector holds a location, one that holds a price range holds a bedrooms
\* selector, and one that holds results holds a price range; whatever the order
\* in which the callbacks arrive.
C29_SelectionsArePrefix ==
    variant = "app" =>
        \A u \in DOMAIN user_state :
            LET st == user_state[u]
            IN  /\ Has(st, "bedrooms") => Has(st, "location")
                /\ (Has(st, "min_price") \/ Has(st, "max_price")) => Has(st, "bedrooms")
                /\ Has(st, "results") => (Has(st, "min_price") /\ Has(st, "max_price"))

\* C30: in app.py, in every reachable state, the non-empty results of a session
\* are the listings of the dataset, in its order, that have the location the
\* session holds now, match the bedrooms selector it holds now and have a price
\* within the range it holds now.
C30_ResultsMatchSelections ==
    variant = "app" =>
        \A u \in DOMAIN user_state :
            LET st == user_state[u]
            IN  Get(st, "results", <<>>) # <<>> =>
                  /\ Has(st, "location")
                  /\ Has(st, "bedrooms")
                  /\ Has(st, "min_price")
                  /\ Has(st, "max_price")
                  /\ LET Wanted(l) ==
                             /\ l.location = st["location"]
                             /\ BedroomsExpected(l.bedrooms, st["bedrooms"])
                             /\ st["min_price"] <= l.price
                             /\ (st["max_price"].inf \/ l.price <= st["max_price"].n)
                     IN  st["results"] = SelectSeq(listings, Wanted)

-----------------------------------------------------------------------------
(* The display reference of a session of app.py *)

\* C31: in app.py, in every reachable state and under every interleaving (a
\* /start handled while a callback of the same user is suspended in a transport
\* call inside send_or_edit_listing included), a session that holds a display
\* reference holds non-empty results; and a session without results, as
\* cmd_start leaves it, is given no display reference by any step: it has none
\* until a budget selection has stored results in it.
C31_DisplayNeedsResults ==
    /\ [](variant = "app" =>
            \A u \in DOMAIN user_state :
                Has(user_state[u], "display")
                    => Get(user_state[u], "results", <<>>) # <<>>)
    /\ [][variant = "app" =>
            \A u \in DOMAIN user_state' :
                (/\ Has(user_state'[u], "display")
                 /\ ~Has(SessionOf(user_state, u), "display"))
                    => Get(SessionOf(user_state, u), "results", <<>>) # <<>>]_vars

-----------------------------------------------------------------------------
(* SpecFrame: the callbacks of one user in app.py going through the funnel to
   a result list of two listings with two URLs, paging back and forth and
   toggling favorites, over a favorites file that is empty at the start or
   holds a record of another user, with file operations that may fail *)

NextFrame ==
    \E t \in Tasks :
        \/ StartCallback(t, {1}, { Join(<<S_location, S_Thika>>, "|"),
                                   Join(<<S_bedrooms, <<"2">> >>, "|"),
                                   BudgetData(0, PyInf),
                                   PagePrev, PageNext, S_fav_toggle })
        \/ LockResume(t)
        \/ Resume(t)

SpecFrame ==
    InitWith({"app"}, {ToggleListings}, {<<>>, <<FavRow(2, ListingA)>>}, HistOff)
        /\ [][NextFrame]_vars

\* The callback handler in slot t, started with callback data d, takes the step
HandlerStep(t, d) ==
    /\ tasks[t].kind = "callback"
    /\ tasks[t].data = d
    /\ tasks'[t] # tasks[t]

\* The session of u holds every key outside `keys` after the step exactly as
\* before it
SessionSameOutside(u, keys) ==
    \A k \in SessionKeys \ keys :
        SameAt(SessionOf(user_state, u), SessionOf(user_state', u), k)

\* C32: in app.py, no step of a page|prev or page|next handler changes a
\* session field other than page and display, and none changes the favorites
\* file; no step of a fav_toggle handler changes a session field other than
\* display (location, bedrooms, price range, results and page stay), and the
\* records of the file other than those of that user with the URL hash of the
\* current listing stay as they were, in their order.
C32_PageAndToggleFrame ==
    [][\A t \in Tasks :
         /\ (HandlerStep(t, PagePrev) \/ HandlerStep(t, PageNext)) =>
               /\ SessionSameOutside(tasks[t].uid, {"page", "display"})
               /\ fav_file' = fav_file
         /\ HandlerStep(t, S_fav_toggle) =>
               /\ SessionSameOutside(tasks[t].uid, {"display"})
               /\ fav_file' # fav_file =>
                     LET st == user_state[tasks[t].uid]
                         h  == _md5(st["results"][PageOf(st) + 1].url)
                     IN  OtherRecords(fav_file', tasks[t].uid, h)
                           = OtherRecords(fav_file, tasks[t].uid, h)]_vars

-----------------------------------------------------------------------------
(* SpecLive: the callbacks of one user in app.py (the funnel, the next page,
   the favorite toggle and removal, the favorites view over a file with two
   records of the user) and /start, two updates in flight, file operations
   that may fail; every awaited transport call eventually returns or raises,
   and the event loop eventually runs a waiter whose future has its result *)

NextLive ==
    \E t \in Tasks :
        \/ StartCallback(t, {1}, TogglePayloads \cup {S_favorites})
        \/ StartCommand(t, {1}, {"start"})
        \/ LockResume(t)
        \/ Resume(t)

SpecLive ==
    /\ InitWith({"app"}, {ToggleListings},
                {<<FavRow(1, ListingA), FavRow(1, ListingB)>>}, HistOff)
    /\ [][NextLive]_vars
    /\ \A t \in Tasks : WF_vars(Resume(t)) /\ WF_vars(LockResume(t))

\* C33: in app.py, when every awaited transport call eventually returns or
\* raises and the event loop is fair, a callback handler inside `async with
\* lock` eventually ends, whether its calls returned or raised, and the step in
\* which it ends releases the lock; so a lock that is held is eventually free,
\* and a handler that waits for the lock of its user eventually enters its
\* critical section.
C33_LockEventuallyReleased ==
    /\ \A t \in Tasks : InCritical(t) ~> (tasks[t].pc = "idle")
    /\ [][\A t \in Tasks :
            (InCritical(t) /\ tasks'[t].pc = "idle")
                => ~locks'[tasks[t].lock].locked]_vars
    /\ \A u \in Users :
          (u \in DOMAIN user_locks /\ locks[user_locks[u]].locked)
              ~> (u \in DOMAIN user_locks /\ ~locks[user_locks[u]].locked)
    /\ \A t \in Tasks : (tasks[t].pc = "lock_wait") ~> InCritical(t)

\* A handler in its except clause, about to reply "Something went wrong",
\* holds the lock a second handler of the same user waits for
C33_Witness ==
    \E t1, t2 \in Tasks :
        /\ tasks[t1].kind = "callback"
        /\ tasks[t1].pc = "call_last"
        /\ tasks[t1].call.msg = "something_went_wrong"
        /\ locks[tasks[t1].lock].locked
        /\ tasks[t2].pc = "lock_wait"
        /\ tasks[t2].lock = tasks[t1].lock
        /\ locks[tasks[t1].lock].waiters = <<t2>>

=============================================================================
